---------------------------- MODULE Spec2Model ----------------------------
(***************************************************************************)
(* A model of viuer: the geometry functions (fit_dimensions,               *)
(* find_best_fit, resize), the memoized capability accessors, the public   *)
(* print entry point and the block printer.                                *)
(*                                                                         *)
(* Integers.  The model checker's integers are 32-bit signed, so a u32 is  *)
(* modelled by a natural below 2^31 and a product of two u32 is computed   *)
(* digit by digit in base 2^16 (Mul64); Mul32 is Rust's `*` on u32: it     *)
(* reports the overflow (a panic when the build has overflow checks, as    *)
(* the dev profile does) and the wrapped value (the release profile).      *)
(***************************************************************************)
EXTENDS Integers, Sequences, FiniteSets

VARIABLES
    overflow_checks,  \* build profile: TRUE = overflow checks on (dev), FALSE = wrapping (release)
    term,             \* what terminal_size() returns: <<columns, rows>>
    geo,              \* the geometry call that was made: [op, args, res], or NoCall
    cell,             \* the statics KITTY_SUPPORT, ITERM_SUPPORT, SIXEL_SUPPORT: [state, value]
    th,               \* per thread: where it is in an accessor call
    sent,             \* per probe: how many times its query was written to the terminal
    returned,         \* per protocol: the values its accessor has returned so far
    ncalls,           \* per protocol: how many calls of its accessor have returned
    started,          \* how many accessor calls have been made
    config,           \* the Config given to print
    image,            \* the image given to print
    printer,          \* the printer that print handed the image to
    blk,              \* BlockPrinter::print: [pc, img, out_buffer, curr_row_px, writes, result]
    stdout,           \* what has reached the standard output
    tty               \* a probe or protocol printer at work on a scripted terminal

geomVars == <<geo>>
probeVars == <<th, sent, returned, ncalls, started>>
printVars == <<config, image, printer, blk, stdout>>

vars == <<overflow_checks, term, geo, cell, th, sent, returned, ncalls, started,
          config, image, printer, blk, stdout, tty>>

(***************************************************************************)
(* Bounds of the model.                                                    *)
(***************************************************************************)
\* image sides, requested widths/heights and bounds range over 0..MaxDim and BigDim
MaxDim == 3
\* one large u32 value, so that the u32 products overflow and the u16 casts truncate
BigDim == 65536
\* terminal columns and rows reported by the OS range over 1..MaxTerm
MaxTerm == 2
\* threads that call the capability accessors
NThreads == 2
\* accessor calls made in one run
MaxCalls == 3
\* keys a probe's read loop reads before the key that ends it
MaxKeys == 1
\* images given to the block printer are up to MaxW pixels wide, MaxH high
MaxW == 2
MaxH == 3

TwoTo8 == 2 ^ 8
TwoTo16 == 2 ^ 16

(***************************************************************************)
(* u32 arithmetic.                                                         *)
(***************************************************************************)
\* The exact product a*b of two u32 below 2^31 as four base-2^16 digits,
\* most significant first.
Mul64(a, b) ==
    LET al == a % TwoTo16
        ah == a \div TwoTo16
        bl == b % TwoTo16
        bh == b \div TwoTo16
        t0 == (al % TwoTo8) * bl
        t1 == (al \div TwoTo8) * bl
        s  == t0 + TwoTo8 * (t1 % TwoTo8)
        k0 == (s \div TwoTo16) + (t1 \div TwoTo8)
        c1 == ah * bl
        c2 == al * bh
        m  == k0 + (c1 % TwoTo16) + (c2 % TwoTo16)
        k1 == (m \div TwoTo16) + (c1 \div TwoTo16) + (c2 \div TwoTo16)
        n  == k1 + ah * bh
    IN  <<n \div TwoTo16, n % TwoTo16, m % TwoTo16, s % TwoTo16>>

\* x <= y and x < y on exact products
Le64(x, y) ==
    \/ x = y
    \/ \E i \in 1..4 : x[i] < y[i] /\ \A j \in 1..(i - 1) : x[j] = y[j]

Lt64(x, y) == x # y /\ Le64(x, y)

\* Rust's a * b on u32: whether it overflows, and the value wrapped modulo 2^32
Mul32(a, b) ==
    LET p == Mul64(a, b)
    IN  [ovf |-> p[1] # 0 \/ p[2] # 0, val |-> p[3] * TwoTo16 + p[4]]

\* Rust's `x as u16` on an integer: truncation to the low 16 bits
AsU16(x) == x % TwoTo16

\* Option<u32>
None == <<>>
Some(v) == <<v>>
IsSome(o) == o # None
Unwrap(o) == o[1]

\* the result of a call: a panic, or a pair
Panic == [panic |-> TRUE, w |-> 0, h |-> 0]
Ok(w, h) == [panic |-> FALSE, w |-> w, h |-> h]

(***************************************************************************)
(* utils.rs: terminal_size                                                 *)
(***************************************************************************)
DEFAULT_TERM_SIZE == <<80, 24>>

\* what terminal_size() can return: the size the OS reports, or the default
terminal_size == ((1..MaxTerm) \X (1..MaxTerm)) \cup {DEFAULT_TERM_SIZE}

(***************************************************************************)
(* fit_dimensions (utils.rs and printer/mod.rs hold the same function)     *)
(***************************************************************************)
fit_dimensions(width, height, bound_width, bound_height) ==
    LET ratio == Mul32(width, bound_height)
        nratio == Mul32(bound_width, height)
        use_width == nratio.val <= ratio.val
        \* height * bound_width / width, or width * bound_height / height
        prod == IF use_width THEN Mul32(height, bound_width)
                             ELSE Mul32(width, bound_height)
        divisor == IF use_width THEN width ELSE height
        intermediate == prod.val \div divisor
    IN  IF overflow_checks /\ (ratio.ovf \/ nratio.ovf) THEN Panic
        \* a division by zero panics in every build
        ELSE IF divisor = 0 THEN Panic
        ELSE IF use_width THEN Ok(bound_width, intermediate)
        ELSE Ok(intermediate, bound_height)

(***************************************************************************)
(* printer/mod.rs: find_best_fit                                           *)
(***************************************************************************)
\* (h / 2 - 1) as u16: the u32 subtraction underflows when h / 2 = 0; it
\* panics with overflow checks and wraps to 2^32 - 1 without, and the cast
\* keeps the low 16 bits ((x mod 2^32) mod 2^16 = x mod 2^16)
HalfMinusOne(h) ==
    IF h \div 2 = 0 /\ overflow_checks THEN Panic
    ELSE Ok(0, AsU16(h \div 2 - 1))

find_best_fit(img, width, height) ==
    IF ~IsSome(width) /\ ~IsSome(height) THEN
        LET term_w == term[1]
            term_h == term[2]
            b == Mul32(2, term_h)
            f == fit_dimensions(img.w, img.h, term_w, b.val)
            rows == HalfMinusOne(f.h)
        IN  IF f.panic \/ rows.panic THEN Panic
            ELSE Ok(AsU16(f.w), rows.h)
    ELSE IF IsSome(width) /\ ~IsSome(height) THEN
        LET b == Mul32(2, img.h)
            f == fit_dimensions(img.w, img.h, Unwrap(width), b.val)
        IN  IF (overflow_checks /\ b.ovf) \/ f.panic THEN Panic
            ELSE Ok(AsU16(f.w), AsU16(f.h \div 2))
    ELSE IF ~IsSome(width) /\ IsSome(height) THEN
        LET b == Mul32(2, Unwrap(height))
            f == fit_dimensions(img.w, img.h, img.w, b.val)
        IN  IF (overflow_checks /\ b.ovf) \/ f.panic THEN Panic
            ELSE Ok(AsU16(f.w), AsU16(f.h \div 2))
    ELSE Ok(AsU16(Unwrap(width)), AsU16(Unwrap(height)))

(***************************************************************************)
(* printer/mod.rs: resize.  The pixel size of the image it returns.        *)
(***************************************************************************)
\* the base-2^8 digits of an exact product, most significant first
Bytes(p) ==
    <<p[1] \div TwoTo8, p[1] % TwoTo8, p[2] \div TwoTo8, p[2] % TwoTo8,
      p[3] \div TwoTo8, p[3] % TwoTo8, p[4] \div TwoTo8, p[4] % TwoTo8>>

RECURSIVE LongDiv(_, _, _, _)
LongDiv(ds, d, r, q) ==
    IF ds = <<>> THEN q
    ELSE LET cur == r * TwoTo8 + Head(ds)
         IN  LongDiv(Tail(ds), d, cur % d, q * TwoTo8 + cur \div d)

\* the exact product p (u64) divided by d > 0
Div64(p, d) == LongDiv(Bytes(p), d, 0, 0)

\* DynamicImage::thumbnail(nwidth, nheight) on a width x height image: the
\* size of the thumbnail, which the image crate computes in u64 (no
\* overflow), with at least 1 on the fitted axis.  test_resize_* pin it down.
thumbnail(width, height, nwidth, nheight) ==
    LET ratio == Mul64(width, nheight)
        nratio == Mul64(nwidth, height)
        use_width == Le64(nratio, ratio)
        divisor == IF use_width THEN width ELSE height
        quot == Div64(IF use_width THEN nratio ELSE ratio, divisor)
        intermediate == IF quot < 1 THEN 1 ELSE quot
    IN  IF divisor = 0 THEN Panic
        ELSE IF use_width THEN Ok(nwidth, intermediate)
        ELSE Ok(intermediate, nheight)

\* DynamicImage::thumbnail_exact(nwidth, nheight): exactly that size
thumbnail_exact(nwidth, nheight) == Ok(nwidth, nheight)

resize(img, width, height) ==
    LET print_width == IF IsSome(width) THEN Unwrap(width) ELSE img.w
        \* 2 * h
        twice == IF IsSome(height) THEN Mul32(2, Unwrap(height))
                                   ELSE [ovf |-> FALSE, val |-> img.h]
        print_height == twice.val
    IN  IF overflow_checks /\ twice.ovf THEN Panic
        ELSE IF ~IsSome(width) /\ ~IsSome(height) THEN
            LET w == term[1]
                \* u32::from(term_h - 1), a u16 subtraction
                h == AsU16(term[2] - 1)
                pw == IF print_width > w THEN w ELSE print_width
                ph == IF print_height > h THEN 2 * h ELSE print_height
            IN  IF term[2] = 0 /\ overflow_checks THEN Panic
                ELSE thumbnail(img.w, img.h, pw, ph)
        ELSE IF IsSome(width) /\ IsSome(height) THEN
            thumbnail_exact(print_width, print_height)
        ELSE thumbnail(img.w, img.h, print_width, print_height)

(***************************************************************************)
(* The geometry calls                                                      *)
(***************************************************************************)
NoCall == [op |-> "none"]

Dims == (0..MaxDim) \cup {BigDim}

Options == {None} \cup {Some(v) : v \in Dims}

Images == [w : Dims, h : Dims]

CallFitDimensions ==
    /\ geo = NoCall
    /\ \E w \in Dims, h \in Dims, bw \in Dims, bh \in Dims :
         geo' = [op |-> "fit_dimensions", args |-> <<w, h, bw, bh>>,
                 res |-> fit_dimensions(w, h, bw, bh)]
    /\ UNCHANGED <<tty, overflow_checks, term, cell, probeVars, printVars>>

CallFindBestFit ==
    /\ geo = NoCall
    /\ \E img \in Images, width \in Options, height \in Options :
         geo' = [op |-> "find_best_fit", args |-> <<img, width, height>>,
                 res |-> find_best_fit(img, width, height)]
    /\ UNCHANGED <<tty, overflow_checks, term, cell, probeVars, printVars>>

CallResize ==
    /\ geo = NoCall
    /\ \E img \in Images, width \in Options, height \in Options :
         geo' = [op |-> "resize", args |-> <<img, width, height>>,
                 res |-> resize(img, width, height)]
    /\ UNCHANGED <<tty, overflow_checks, term, cell, probeVars, printVars>>

(***************************************************************************)
(* The capability accessors (kitty.rs, iterm.rs, sixel_util.rs).  Each is  *)
(* a read of a LazyLock static whose initialiser is the protocol's check   *)
(* function; a check function runs one or two probes, each one a query     *)
(* written to the terminal followed by a loop that reads keys from the     *)
(* terminal until the key that ends it.                                    *)
(***************************************************************************)
Protocols == {"kitty", "iterm", "sixel"}

\* enum KittySupport
KittySupport == {"None", "Local", "Remote"}

Threads == 1..NThreads

\* the probes of each check function, by the function that runs them
Probes(p) ==
    IF p = "kitty" THEN {"has_remote_support", "has_local_support"}
    ELSE IF p = "iterm" THEN {"has_iterm_support_capabilities",
                              "has_iterm_support_reportcellsize"}
    ELSE {"check_device_attrs"}

AllProbes == UNION {Probes(p) : p \in Protocols}

\* the probe a check function starts with
FirstProbe(p) ==
    IF p = "kitty" THEN "has_remote_support"
    ELSE IF p = "iterm" THEN "has_iterm_support_capabilities"
    ELSE "check_device_attrs"

\* a check function either goes on to its next probe or returns a value
Goto(probe) == [ret |-> FALSE, probe |-> probe, value |-> FALSE]
Return(v) == [ret |-> TRUE, probe |-> "", value |-> v]

\* mutation of check_kitty_support: the local probe runs whatever the
\* remote probe returned
check_kitty_support_unconditional(probe, ok) ==
    IF probe = "has_remote_support" THEN Goto("has_local_support")
    ELSE IF ok THEN Return("Local") ELSE Return("Remote")

\* check_kitty_support, after `probe` has ended with is_ok() = ok
check_kitty_support(probe, ok) ==
    IF probe = "has_remote_support"
    THEN IF ok THEN Goto("has_local_support") ELSE Return("None")
    ELSE IF ok THEN Return("Local") ELSE Return("Remote")

\* mutation of check_iterm_support: the environment is not consulted
check_iterm_support_probes_only(probe, ok, env) ==
    IF ok THEN Return(TRUE)
    ELSE IF probe = "has_iterm_support_capabilities"
    THEN Goto("has_iterm_support_reportcellsize")
    ELSE Return(FALSE)

\* check_iterm_support, after `probe` has ended with is_ok() = ok; env is
\* whether TERM_PROGRAM, LC_TERMINAL or KONSOLE_VERSION name a known terminal
check_iterm_support(probe, ok, env) ==
    IF ok THEN Return(TRUE)
    ELSE IF probe = "has_iterm_support_capabilities"
    THEN Goto("has_iterm_support_reportcellsize")
    ELSE Return(env)

\* check_sixel_support: check_device_attrs(..).unwrap_or(false); ok is
\* whether the probe returned Ok(true)
check_sixel_support(probe, ok) == Return(ok)

CheckSupport(p, probe, ok, env) ==
    IF p = "kitty" THEN check_kitty_support(probe, ok)
    ELSE IF p = "iterm" THEN check_iterm_support(probe, ok, env)
    ELSE check_sixel_support(probe, ok)

\* a LazyLock before its first access, and once it holds a value
Uninit(p) == [state |-> "uninit", value |-> IF p = "kitty" THEN "None" ELSE FALSE]
Done(v) == [state |-> "done", value |-> v]

Idle == [pc |-> "idle", proto |-> "", probe |-> "", keys |-> 0]

\* mutation of MustInitialize: the initialiser runs on every access that
\* finds no initialisation under way
MustInitialize_every_access(p) == cell[p].state # "running"

\* LazyLock::force: the access that finds the cell uninitialised runs the
\* initialiser
MustInitialize(p) == cell[p].state = "uninit"

\* the accessor returns v to thread t
Deliver(t, p, v) ==
    /\ returned' = [returned EXCEPT ![p] = @ \cup {v}]
    /\ ncalls' = [ncalls EXCEPT ![p] = @ + 1]
    /\ th' = [th EXCEPT ![t] = Idle]

\* thread t calls the accessor of protocol p (get_kitty_support,
\* is_iterm_supported, is_sixel_supported)
CallAccessor(t, p) ==
    /\ th[t].pc = "idle"
    /\ started < MaxCalls
    /\ started' = started + 1
    /\ IF MustInitialize(p) THEN
           /\ cell' = [cell EXCEPT ![p] = [@ EXCEPT !.state = "running"]]
           /\ th' = [th EXCEPT ![t] = [pc |-> "write", proto |-> p,
                                       probe |-> FirstProbe(p), keys |-> 0]]
           /\ UNCHANGED <<returned, ncalls>>
       ELSE IF cell[p].state = "running" THEN
           \* another thread is initialising: wait for it
           /\ th' = [th EXCEPT ![t] = [pc |-> "blocked", proto |-> p,
                                       probe |-> "", keys |-> 0]]
           /\ UNCHANGED <<cell, returned, ncalls>>
       ELSE
           /\ Deliver(t, p, cell[p].value)
           /\ UNCHANGED cell
    /\ UNCHANGED <<tty, overflow_checks, term, geomVars, sent, printVars>>

\* the probe of thread t has ended: the check function goes on or returns,
\* and its value initialises the cell
EndProbe(t, ok, env) ==
    LET p == th[t].proto
        step == CheckSupport(p, th[t].probe, ok, env)
    IN  IF step.ret THEN
            /\ cell' = [cell EXCEPT ![p] = Done(step.value)]
            /\ Deliver(t, p, step.value)
        ELSE
            /\ th' = [th EXCEPT ![t] = [@ EXCEPT !.pc = "write",
                                                 !.probe = step.probe, !.keys = 0]]
            /\ UNCHANGED <<cell, returned, ncalls>>

\* the probe writes its query and flushes; a failed write ends the probe
\* with an error before anything is read
SendQuery(t) ==
    /\ th[t].pc = "write"
    /\ sent' = [sent EXCEPT ![th[t].probe] = @ + 1]
    /\ \E written \in BOOLEAN, env \in BOOLEAN :
         IF written THEN
             /\ th' = [th EXCEPT ![t] = [@ EXCEPT !.pc = "read"]]
             /\ UNCHANGED <<cell, returned, ncalls>>
         ELSE EndProbe(t, FALSE, env)
    /\ UNCHANGED <<tty, overflow_checks, term, geomVars, started, printVars>>

\* the read loop reads a key that does not end it
ReadKey(t) ==
    /\ th[t].pc = "read"
    /\ th[t].keys < MaxKeys
    /\ th' = [th EXCEPT ![t] = [@ EXCEPT !.keys = @ + 1]]
    /\ UNCHANGED <<tty, overflow_checks, term, geomVars, cell, sent, returned, ncalls,
                   started, printVars>>

\* the read loop reads the key that ends it (or the read fails), and the
\* probe classifies the response
ReadLastKey(t) ==
    /\ th[t].pc = "read"
    /\ \E ok \in BOOLEAN, env \in BOOLEAN : EndProbe(t, ok, env)
    /\ UNCHANGED <<tty, overflow_checks, term, geomVars, sent, started, printVars>>

\* a thread that waited for the initialisation gets the value
Wake(t) ==
    /\ th[t].pc = "blocked"
    /\ cell[th[t].proto].state = "done"
    /\ Deliver(t, th[t].proto, cell[th[t].proto].value)
    /\ UNCHANGED <<tty, overflow_checks, term, geomVars, cell, sent, started, printVars>>

(***************************************************************************)
(* config.rs: Config.  The fields restore_cursor and kitty_delete are left *)
(* out: neither print nor the block printer reads them.                    *)
(***************************************************************************)
\* Config::default()
DefaultConfig ==
    [resize |-> TRUE, transparent |-> FALSE, absolute_offset |-> TRUE, x |-> 0,
     y |-> 0, width |-> None, height |-> None, truecolor |-> TRUE, use_kitty |-> TRUE]

\* i16::MIN, the y whose negation does not fit an i16
I16Min == -(2 ^ 15)

(***************************************************************************)
(* Images: w x h pixels, px[row][col] with rows and columns from 1.  A     *)
(* pixel is its alpha channel and its colour.                              *)
(***************************************************************************)
PixelValues == {[alpha |-> 0, rgb |-> "rgb"], [alpha |-> 255, rgb |-> "rgb"]}

ImagesOf(w, h) == {[w |-> w, h |-> h, px |-> f] : f \in [1..h -> [1..w -> PixelValues]]}

\* the image resize returns: of the size resize computes; the pixels are
\* those of the thumbnail, which are the image's own when the size stays and
\* are left open (any image of that size) when it changes
Resized(img, width, height) ==
    LET d == resize(img, width, height)
    IN  IF d.panic THEN {}
        ELSE IF d.w = img.w /\ d.h = img.h THEN {img}
        ELSE ImagesOf(d.w, d.h)

(***************************************************************************)
(* printer/block.rs: what the block printer writes.  The output is a       *)
(* sequence of items: cursor moves, colour changes, glyphs, line ends.     *)
(***************************************************************************)
NoColor == [kind |-> "None", rgb |-> ""]

Item(t, n) == [t |-> t, n |-> n, col |-> 0, fg |-> NoColor, bg |-> NoColor]
MoveTo(col, row) == [Item("MoveTo", row) EXCEPT !.col = col]
MoveToPreviousLine(n) == Item("MoveToPreviousLine", n)
MoveRight(n) == Item("MoveRight", n)
Newline == Item("\n", 0)
Reset == Item("reset", 0)
UPPER_HALF_BLOCK == Item("UPPER_HALF_BLOCK", 0)
LOWER_HALF_BLOCK == Item("LOWER_HALF_BLOCK", 0)
\* out_buffer.set_color(c)
SetColor(c) == [t |-> "set_color", n |-> 0, col |-> 0, fg |-> c.fg, bg |-> c.bg]

\* ColorSpec::new(), with set_fg / set_bg
ColorSpec(fg, bg) == [fg |-> fg, bg |-> bg]

is_pixel_transparent(pixel) == pixel.alpha = 0

get_transparency_color(row, col, truecolor) ==
    [kind |-> IF truecolor THEN "Rgb" ELSE "Ansi256",
     rgb |-> IF row % 2 = col % 2 THEN "CHECKERBOARD_BACKGROUND_DARK"
                                  ELSE "CHECKERBOARD_BACKGROUND_LIGHT"]

get_color_from_pixel(pixel, truecolor) ==
    [kind |-> IF truecolor THEN "Rgb" ELSE "Ansi256", rgb |-> pixel.rgb]

\* mutation of PixelColor: the transparent option is ignored
PixelColor_checkerboard(cfg, img, curr_row_px, curr_col_px) ==
    LET pixel == img.px[curr_row_px + 1][curr_col_px + 1]
    IN  IF is_pixel_transparent(pixel)
        THEN get_transparency_color(curr_row_px, curr_col_px, cfg.truecolor)
        ELSE get_color_from_pixel(pixel, cfg.truecolor)

\* the colour of the pixel in row curr_row_px, column curr_col_px (from 0)
PixelColor(cfg, img, curr_row_px, curr_col_px) ==
    LET pixel == img.px[curr_row_px + 1][curr_col_px + 1]
    IN  IF is_pixel_transparent(pixel) THEN
            IF cfg.transparent THEN NoColor
            ELSE get_transparency_color(curr_row_px, curr_col_px, cfg.truecolor)
        ELSE get_color_from_pixel(pixel, cfg.truecolor)

\* mutation of FillCell: a cell with a top colour only gets the lower half
\* glyph, on the last row too
FillCell_always_lower(c, is_last_row) ==
    IF c.fg = NoColor /\ c.bg = NoColor THEN <<MoveRight(1)>>
    ELSE IF c.bg = NoColor THEN <<SetColor(ColorSpec(c.fg, NoColor)), LOWER_HALF_BLOCK>>
    ELSE IF c.fg = NoColor THEN <<SetColor(ColorSpec(c.bg, NoColor)), LOWER_HALF_BLOCK>>
    ELSE <<SetColor(c), LOWER_HALF_BLOCK>>

\* what fill_out_buffer writes for one cell
FillCell(c, is_last_row) ==
    IF is_last_row THEN
        IF c.bg # NoColor
        THEN <<SetColor(ColorSpec(c.bg, NoColor)), UPPER_HALF_BLOCK>>
        ELSE <<MoveRight(1)>>
    ELSE IF c.fg = NoColor /\ c.bg = NoColor THEN <<MoveRight(1)>>
    ELSE IF c.bg = NoColor THEN <<SetColor(ColorSpec(c.fg, NoColor)), LOWER_HALF_BLOCK>>
    ELSE IF c.fg = NoColor THEN <<SetColor(ColorSpec(c.bg, NoColor)), UPPER_HALF_BLOCK>>
    ELSE <<SetColor(c), LOWER_HALF_BLOCK>>

RECURSIVE FillCells(_, _)
FillCells(row_buffer, is_last_row) ==
    IF row_buffer = <<>> THEN <<>>
    ELSE FillCell(Head(row_buffer), is_last_row) \o FillCells(Tail(row_buffer), is_last_row)

\* mutation of fill_out_buffer: the line is not ended
fill_out_buffer_no_newline(row_buffer, is_last_row) ==
    FillCells(row_buffer, is_last_row) \o <<Reset>>

\* what fill_out_buffer appends to out_buffer
fill_out_buffer(row_buffer, is_last_row) ==
    FillCells(row_buffer, is_last_row) \o <<Reset, Newline>>

\* the outcomes of writing a buffer to the standard output
WriteOutcomes == {"Ok", "BrokenPipe", "Other"}

\* mutation of print_buffer: a broken pipe is an error like any other
print_buffer_every_error(out_buffer, outcome) ==
    IF outcome = "Ok" THEN [res |-> "Ok", written |-> out_buffer, out_buffer |-> <<>>]
    ELSE [res |-> "IO", written |-> <<>>, out_buffer |-> out_buffer]

\* print_buffer: the result, what reached the standard output, and the
\* out_buffer it leaves
print_buffer(out_buffer, outcome) ==
    IF outcome = "Ok" THEN [res |-> "Ok", written |-> out_buffer, out_buffer |-> <<>>]
    ELSE IF outcome = "BrokenPipe"
    THEN [res |-> "Ok", written |-> <<>>, out_buffer |-> out_buffer]
    ELSE [res |-> "IO", written |-> <<>>, out_buffer |-> out_buffer]

\* (-y) as u16 for a negative i16 y: the negation of i16::MIN overflows, a
\* panic with overflow checks and i16::MIN again without
NegAsU16(y) ==
    IF y = I16Min THEN [panic |-> overflow_checks, n |-> AsU16(I16Min)]
    ELSE [panic |-> FALSE, n |-> AsU16(-y)]

\* mutation of AdjustYOffset: no check of the sign of y under absolute_offset
AdjustYOffset_unchecked(cfg) ==
    IF cfg.absolute_offset THEN [kind |-> "Ok", buf |-> <<MoveTo(0, AsU16(cfg.y))>>]
    ELSE IF cfg.y < 0 THEN
        IF NegAsU16(cfg.y).panic THEN [kind |-> "panic", buf |-> <<>>]
        ELSE [kind |-> "Ok", buf |-> <<MoveToPreviousLine(NegAsU16(cfg.y).n)>>]
    ELSE [kind |-> "Ok", buf |-> [i \in 1..cfg.y |-> Newline]]

\* "adjust y offset": what goes into out_buffer, or the error
AdjustYOffset(cfg) ==
    IF cfg.absolute_offset THEN
        IF cfg.y >= 0 THEN [kind |-> "Ok", buf |-> <<MoveTo(0, AsU16(cfg.y))>>]
        ELSE [kind |-> "InvalidConfiguration", buf |-> <<>>]
    ELSE IF cfg.y < 0 THEN
        IF NegAsU16(cfg.y).panic THEN [kind |-> "panic", buf |-> <<>>]
        ELSE [kind |-> "Ok", buf |-> <<MoveToPreviousLine(NegAsU16(cfg.y).n)>>]
    ELSE [kind |-> "Ok", buf |-> [i \in 1..cfg.y |-> Newline]]

NoResult == [kind |-> "none", w |-> 0, h |-> 0]
Result(kind, w, h) == [kind |-> kind, w |-> w, h |-> h]

BlkIdle == [pc |-> "idle", img |-> [w |-> 0, h |-> 0, px |-> <<>>],
            out_buffer |-> <<>>, curr_row_px |-> 0, writes |-> <<>>,
            result |-> NoResult]

\* the call returns (or panics)
BlkDone(kind, w, h) == [blk EXCEPT !.pc = "done", !.result = Result(kind, w, h)]

\* lib.rs print: resizes when config.resize, and hands the image to the
\* block printer
print ==
    /\ blk.pc = "idle"
    /\ printer' = "BlockPrinter"
    /\ IF config.resize THEN
           IF resize(image, config.width, config.height).panic
           THEN blk' = BlkDone("panic", 0, 0)
           ELSE \E resized_img \in Resized(image, config.width, config.height) :
                    blk' = [blk EXCEPT !.pc = "begin", !.img = resized_img]
       ELSE blk' = [blk EXCEPT !.pc = "begin", !.img = image]
    /\ UNCHANGED <<tty, overflow_checks, term, geomVars, cell, probeVars, config, image, stdout>>

\* BlockPrinter::print up to the pixel loop: the y offset, then the resize
BlockBegin ==
    /\ blk.pc = "begin"
    /\ LET off == AdjustYOffset(config)
       IN  IF off.kind # "Ok" THEN blk' = BlkDone(off.kind, 0, 0)
           ELSE IF config.resize THEN
               IF resize(blk.img, config.width, config.height).panic
               THEN blk' = BlkDone("panic", 0, 0)
               ELSE \E resized_img \in Resized(blk.img, config.width, config.height) :
                        blk' = [blk EXCEPT !.pc = "rows", !.img = resized_img,
                                           !.out_buffer = off.buf]
           ELSE blk' = [blk EXCEPT !.pc = "rows", !.out_buffer = off.buf]
    /\ UNCHANGED <<tty, overflow_checks, term, geomVars, cell, probeVars, config, image,
                   printer, stdout>>

\* the pixel loop over two pixel rows, which make one row of cells: the
\* row_buffer gets the top colours as background and the bottom colours as
\* foreground, and the line goes to out_buffer and to the standard output
BlockRow ==
    /\ blk.pc = "rows"
    /\ blk.img.w > 0
    /\ blk.curr_row_px + 2 <= blk.img.h
    /\ LET row_buffer == [c \in 1..blk.img.w |->
                             ColorSpec(PixelColor(config, blk.img, blk.curr_row_px + 1, c - 1),
                                       PixelColor(config, blk.img, blk.curr_row_px, c - 1))]
           line == blk.out_buffer
                       \o (IF config.x > 0 THEN <<MoveRight(config.x)>> ELSE <<>>)
                       \o fill_out_buffer(row_buffer, FALSE)
       IN  \E outcome \in WriteOutcomes :
             LET p == print_buffer(line, outcome)
             IN  /\ stdout' = stdout \o p.written
                 /\ IF p.res = "Ok"
                    THEN blk' = [blk EXCEPT !.out_buffer = p.out_buffer,
                                            !.curr_row_px = @ + 2,
                                            !.writes = Append(@, outcome)]
                    ELSE blk' = [BlkDone("IO", 0, 0) EXCEPT !.out_buffer = p.out_buffer,
                                                            !.curr_row_px = @ + 2,
                                                            !.writes = Append(@, outcome)]
    /\ UNCHANGED <<tty, overflow_checks, term, geomVars, cell, probeVars, config, image, printer>>

\* after the pixel loop: the half row of an image of odd height, the final
\* print_buffer and the returned size
BlockEnd ==
    /\ blk.pc = "rows"
    /\ ~(blk.img.w > 0 /\ blk.curr_row_px + 2 <= blk.img.h)
    /\ LET odd == blk.img.w > 0 /\ blk.curr_row_px < blk.img.h
           row_buffer == [c \in 1..blk.img.w |->
                             ColorSpec(NoColor,
                                       PixelColor(config, blk.img, blk.curr_row_px, c - 1))]
           curr_row_px == IF odd THEN blk.curr_row_px + 1 ELSE blk.curr_row_px
           line == blk.out_buffer
                       \o (IF odd THEN fill_out_buffer(row_buffer, TRUE) ELSE <<>>)
       IN  \E outcome \in WriteOutcomes :
             LET p == print_buffer(line, outcome)
             IN  /\ stdout' = stdout \o p.written
                 /\ blk' = [pc |-> "done", img |-> blk.img, out_buffer |-> p.out_buffer,
                            curr_row_px |-> curr_row_px,
                            writes |-> Append(blk.writes, outcome),
                            result |-> IF p.res = "Ok"
                                       THEN Result("Ok", blk.img.w, curr_row_px \div 2)
                                       ELSE Result("IO", 0, 0)]
    /\ UNCHANGED <<tty, overflow_checks, term, geomVars, cell, probeVars, config, image, printer>>

(***************************************************************************)
(* printer/block/mod.rs: print_to_writecolor, the block printer that       *)
(* writes to a WriteColor stream.  printer::adjust_offset is not among the *)
(* sources; it is taken from the specification's Cursor & Offset Adjuster. *)
(***************************************************************************)
\* writeln!(stdout, "\r")
CarriageNewline == Item("\r\n", 0)

\* adjust_offset: what it writes, or the error
adjust_offset(cfg) ==
    IF cfg.absolute_offset THEN
        IF cfg.y >= 0 THEN [kind |-> "Ok", buf |-> <<MoveTo(cfg.x, AsU16(cfg.y))>>]
        ELSE [kind |-> "InvalidConfiguration", buf |-> <<>>]
    ELSE
        LET right == IF cfg.x > 0 THEN <<MoveRight(cfg.x)>> ELSE <<>>
        IN  IF cfg.y < 0 THEN
                IF NegAsU16(cfg.y).panic THEN [kind |-> "panic", buf |-> <<>>]
                ELSE [kind |-> "Ok",
                      buf |-> <<MoveToPreviousLine(NegAsU16(cfg.y).n)>> \o right]
            ELSE [kind |-> "Ok", buf |-> [i \in 1..cfg.y |-> Newline] \o right]

\* what write_custom_colored_character writes for the cell colours c
write_custom_colored_character(c, is_last_row, character) ==
    IF is_last_row THEN
        IF c.bg # NoColor
        THEN <<SetColor(ColorSpec(c.bg, NoColor)), UPPER_HALF_BLOCK>>
        ELSE <<MoveRight(1)>>
    ELSE IF c.fg = NoColor /\ c.bg = NoColor THEN <<MoveRight(1)>>
    ELSE IF c.bg = NoColor THEN <<SetColor(ColorSpec(c.fg, NoColor)), LOWER_HALF_BLOCK>>
    ELSE IF c.fg = NoColor THEN <<SetColor(ColorSpec(c.bg, NoColor)), UPPER_HALF_BLOCK>>
    ELSE <<SetColor(c), character>>

write_colored_character(c, is_last_row) ==
    write_custom_colored_character(c, is_last_row, LOWER_HALF_BLOCK)

RECURSIVE WriteCells(_, _)
WriteCells(row_color_buffer, is_last_row) ==
    IF row_color_buffer = <<>> THEN <<>>
    ELSE write_colored_character(Head(row_color_buffer), is_last_row)
             \o WriteCells(Tail(row_color_buffer), is_last_row)

\* a write to the stream succeeds, or fails with an error that is returned
StreamWrite(items, outcome) ==
    IF outcome = "Ok" THEN [res |-> "Ok", written |-> items]
    ELSE [res |-> "IO", written |-> <<>>]

\* print_to_writecolor up to the row loop: the offset, then the resize
\* (whatever config.resize is)
WriteColorBegin ==
    /\ blk.pc = "idle"
    /\ printer' = "print_to_writecolor"
    /\ LET off == adjust_offset([config EXCEPT !.x = 0])
       IN  IF off.kind # "Ok" THEN blk' = BlkDone(off.kind, 0, 0) /\ UNCHANGED stdout
           ELSE \E outcome \in WriteOutcomes :
                  LET p == StreamWrite(off.buf, outcome)
                  IN  /\ stdout' = stdout \o p.written
                      /\ IF p.res # "Ok" THEN blk' = BlkDone("IO", 0, 0)
                         ELSE IF resize(image, config.width, config.height).panic
                         THEN blk' = BlkDone("panic", 0, 0)
                         ELSE \E img \in Resized(image, config.width, config.height) :
                                  blk' = [blk EXCEPT !.pc = "w_rows", !.img = img]
    /\ UNCHANGED <<tty, overflow_checks, term, geomVars, cell, probeVars, config, image>>

\* the row loop over the pixel rows of one row of cells: an even row and the
\* odd row after it, or the last row alone when the height is odd
WriteColorRow ==
    /\ blk.pc = "w_rows"
    /\ blk.curr_row_px < blk.img.h
    /\ LET height == blk.img.h
           curr_row == blk.curr_row_px
           alone == curr_row = height - 1
           row_color_buffer ==
               [c \in 1..blk.img.w |->
                   ColorSpec(IF alone THEN NoColor
                             ELSE PixelColor(config, blk.img, curr_row + 1, c - 1),
                             PixelColor(config, blk.img, curr_row, c - 1))]
           \* the odd row is the last row of the image
           is_last_row == alone \/ curr_row + 1 = height - 1
           line == (IF config.x > 0 THEN <<MoveRight(config.x)>> ELSE <<>>)
                       \o WriteCells(row_color_buffer, alone)
                       \o (IF is_last_row THEN <<>> ELSE <<Reset, CarriageNewline>>)
       IN  \E outcome \in WriteOutcomes :
             LET p == StreamWrite(line, outcome)
             IN  /\ stdout' = stdout \o p.written
                 /\ IF p.res = "Ok"
                    THEN blk' = [blk EXCEPT !.curr_row_px = IF alone THEN @ + 1 ELSE @ + 2]
                    ELSE blk' = BlkDone("IO", 0, 0)
    /\ UNCHANGED <<tty, overflow_checks, term, geomVars, cell, probeVars, config, image, printer>>

\* after the row loop: reset, newline, flush, and the returned size
WriteColorEnd ==
    /\ blk.pc = "w_rows"
    /\ blk.curr_row_px >= blk.img.h
    /\ \E outcome \in WriteOutcomes :
         LET p == StreamWrite(<<Reset, Newline>>, outcome)
             height == blk.img.h
         IN  /\ stdout' = stdout \o p.written
             /\ IF p.res = "Ok"
                THEN blk' = BlkDone("Ok", blk.img.w, (height \div 2) + (height % 2))
                ELSE blk' = BlkDone("IO", 0, 0)
    /\ UNCHANGED <<tty, overflow_checks, term, geomVars, cell, probeVars, config, image, printer>>

(***************************************************************************)
(* The terminal probes and the protocol printers, key by key.  The         *)
(* terminal's reply is a script of keys, as TestKeys replays it: read_key  *)
(* hands out the keys in order and fails once the script is used up.       *)
(* Key::Char(c) is the character c, Key::UnknownEscSeq(s) is "ESC" with    *)
(* the characters of s, and Key::Unknown is "Unknown".                     *)
(***************************************************************************)
\* read_key: the key at position pos + 1, or the read error
read_key(data, idx) ==
    IF idx >= Len(data) THEN [ok |-> FALSE, key |-> "UnexpectedEof"]
    ELSE [ok |-> TRUE, key |-> data[idx + 1]]

\* the loop of has_remote_support for the key read: had_pda, the response,
\* and whether the loop breaks
remote_loop(response, had_pda, key) ==
    LET pda == had_pda \/ key \in {"ESC[?6", "ESC[?1"}
    IN  [response |-> Append(response, key), had_pda |-> pda,
         should_break |-> (pda /\ key = "c") \/ key = "Unknown"]

\* the loop of has_local_support
local_loop(response, had_pda, key) ==
    [response |-> Append(response, key), had_pda |-> had_pda,
     should_break |-> key = "ESC\\" \/ key = "Unknown"]

\* mutation of dsr_loop: the Unknown key does not end the loop
dsr_loop_past_unknown(response, had_pda, key) ==
    [response |-> Append(response, key), had_pda |-> had_pda,
     should_break |-> key = "ESC[0n"]

\* the loop of wait_for_dsr, which has_iterm_support_capabilities and
\* has_iterm_support_reportcellsize repeat word for word
dsr_loop(response, had_pda, key) ==
    [response |-> Append(response, key), had_pda |-> had_pda,
     should_break |-> key = "ESC[0n" \/ key = "Unknown"]

\* the keys that are a Key::Char
Chars ==
    {"G", "i", "=", "3", "1", ";", "O", "K", "E", "c", "2", "4", "7", "8", "C", "a",
     "p", "b", "l", "t", "e", "s", "F", "R", "o", "r", "S", "z"}

\* the loop of check_device_attrs: only the characters are kept
device_attrs_loop(response, had_pda, key) ==
    IF key = "Unknown"
    THEN [response |-> response, had_pda |-> had_pda, should_break |-> TRUE]
    ELSE IF key \in Chars
    THEN [response |-> Append(response, key), had_pda |-> had_pda,
          should_break |-> key = "c"]
    ELSE [response |-> response, had_pda |-> had_pda, should_break |-> FALSE]

LoopBody(probe, response, had_pda, key) ==
    IF probe = "has_remote_support" THEN remote_loop(response, had_pda, key)
    ELSE IF probe = "has_local_support" THEN local_loop(response, had_pda, key)
    ELSE IF probe = "check_device_attrs" THEN device_attrs_loop(response, had_pda, key)
    ELSE dsr_loop(response, had_pda, key)

\* what each probe writes before it reads
Queries(probe) ==
    IF probe = "has_remote_support"
    THEN <<Item("ESC_Gi=31,s=1,v=1,a=q,t=d,f=24;AAAA ESC\\", 0), Item("ESC[c", 0)>>
    ELSE IF probe = "has_local_support"
    THEN <<Item("ESC_Gi=31,s=1,v=1,a=q,t=t;path ESC\\", 0)>>
    ELSE IF probe = "wait_for_dsr" THEN <<Item("ESC[5n", 0)>>
    ELSE IF probe = "has_iterm_support_capabilities"
    THEN <<Item("ESC]1337;Capabilities ESC\\", 0), Item("ESC[5n", 0)>>
    ELSE IF probe = "has_iterm_support_reportcellsize"
    THEN <<Item("ESC]1337;ReportCellSize ESC\\", 0), Item("ESC[5n", 0)>>
    ELSE <<Item("ESC[c", 0)>>

\* The Graphics query response
expected == <<"ESC_", "G", "i", "=", "3", "1", ";", "O", "K", "ESC\\">>

\* mutation of has_remote_support: the whole response has to be the
\* expected reply
has_remote_support_exact(response) ==
    IF response = expected THEN "Ok" ELSE "KittyResponse"

\* response.len() >= expected.len() && response[..expected.len()] == expected
has_remote_support(response) ==
    IF Len(response) >= Len(expected) /\ SubSeq(response, 1, Len(expected)) = expected
    THEN "Ok" ELSE "KittyResponse"

\* mutation of has_local_support: the response is matched at its end
has_local_support_by_suffix(response) ==
    IF Len(response) >= 3 /\ SubSeq(response, Len(response) - 2, Len(response))
                                 = <<"O", "K", "ESC\\">>
    THEN "Ok" ELSE "KittyResponse"

has_local_support(response) ==
    IF Len(response) >= Len(expected) /\ SubSeq(response, 1, Len(expected)) = expected
    THEN "Ok" ELSE "KittyResponse"

\* mutation of wait_for_dsr: keys ahead of the DSR reply are let through
wait_for_dsr_last_key(response) ==
    IF response # <<>> /\ response[Len(response)] = "ESC[0n"
    THEN "Ok" ELSE "KittyResponse"

wait_for_dsr(response) ==
    IF Len(response) = 1 /\ response[Len(response)] = "ESC[0n"
    THEN "Ok" ELSE "KittyResponse"

\* "1337;Capabilities=".len() and "1337;ReportCellSize=".len()
ITERM_CAP_REPLY_SIZE == 18
ITERM_CELL_REPLY_SIZE == 20

\* mutation of has_iterm_support_capabilities: the features are not searched
has_iterm_support_capabilities_any_features(response) ==
    IF response = <<>> \/ response[Len(response)] # "ESC[0n"
           \/ Len(response) < ITERM_CAP_REPLY_SIZE + 1 + 1
    THEN "ItermResponse" ELSE "Ok"

has_iterm_support_capabilities(response) ==
    IF response = <<>> \/ response[Len(response)] # "ESC[0n"
           \/ Len(response) < ITERM_CAP_REPLY_SIZE + 1 + 1
    THEN "ItermResponse"
    \* &response[ITERM_CAP_REPLY_SIZE..=response.len() - 2]
    ELSE IF \E i \in (ITERM_CAP_REPLY_SIZE + 1)..(Len(response) - 1) : response[i] = "F"
    THEN "Ok" ELSE "ItermResponse"

\* the for loop over the response that uses up the characters of
\* EXPECTED_RESPONSE: what is left of them
RECURSIVE ConsumeEcho(_, _, _)
ConsumeEcho(response, chars, consumed) ==
    IF response = <<>> THEN chars
    ELSE IF chars # <<>> /\ Head(chars) = Head(response)
    THEN ConsumeEcho(Tail(response), Tail(chars), consumed + 1)
    ELSE IF consumed # 0 THEN chars
    ELSE ConsumeEcho(Tail(response), chars, consumed)

EXPECTED_RESPONSE ==
    <<"R", "e", "p", "o", "r", "t", "C", "e", "l", "l", "S", "i", "z", "e">>

has_iterm_support_reportcellsize(response) ==
    IF response = <<>> \/ response[Len(response)] # "ESC[0n"
           \/ Len(response) < ITERM_CELL_REPLY_SIZE + 1 + 1
    THEN "ItermResponse"
    ELSE IF ConsumeEcho(response, EXPECTED_RESPONSE, 0) = <<>>
    THEN "Ok" ELSE "ItermResponse"

\* response.contains(";4;") || response.contains(";4c")
check_device_attrs(response) ==
    IF \E i \in 1..(Len(response) - 2) :
           /\ response[i] = ";"
           /\ response[i + 1] = "4"
           /\ response[i + 2] \in {";", "c"}
    THEN "true" ELSE "false"

ProbeResult(probe, response) ==
    IF probe = "has_remote_support" THEN has_remote_support(response)
    ELSE IF probe = "has_local_support" THEN has_local_support(response)
    ELSE IF probe = "wait_for_dsr" THEN wait_for_dsr(response)
    ELSE IF probe = "has_iterm_support_capabilities"
    THEN has_iterm_support_capabilities(response)
    ELSE IF probe = "has_iterm_support_reportcellsize"
    THEN has_iterm_support_reportcellsize(response)
    ELSE check_device_attrs(response)

\* the functions called on the scripted terminal
TtyPrinters ==
    {"print_local", "print_remote", "iTermPrinter", "IcySixelPrinter", "SixelPrinter"}

TtyProbes ==
    {"check_kitty_support", "has_local_support", "has_iterm_support_capabilities",
     "has_iterm_support_reportcellsize", "check_device_attrs", "check_iterm_support",
     "xterm_check_sixel_support"}

\* the environment variables check_iterm_support looks at: a value is a
\* string cut into pieces, and a variable may be unset
NoEnv == [read |-> FALSE, TERM_PROGRAM |-> None, LC_TERMINAL |-> None,
          KONSOLE_VERSION |-> None]

\* the environments at hand: nothing set, one variable set, to a known
\* terminal or to another value, and all three set to other values
Environments ==
    {NoEnv}
    \cup {[NoEnv EXCEPT !.TERM_PROGRAM = Some(v)] :
             v \in {<<"iTerm", ".app">>, <<"WarpTerminal">>, <<"Apple_Terminal">>}}
    \cup {[NoEnv EXCEPT !.LC_TERMINAL = Some(v)] :
             v \in {<<"iTerm", "2">>, <<"WarpTerminal">>}}
    \cup {[NoEnv EXCEPT !.KONSOLE_VERSION = Some(v)] : v \in {<<>>, <<"220401">>}}
    \cup {[NoEnv EXCEPT !.TERM_PROGRAM = Some(<<"Apple_Terminal">>),
                        !.LC_TERMINAL = Some(<<"WarpTerminal">>),
                        !.KONSOLE_VERSION = Some(<<>>)]}

\* str.contains(pat), for a pattern that is one of the pieces
contains(value, pat) == \E i \in DOMAIN value : value[i] = pat

\* the checks of TERM_PROGRAM, LC_TERMINAL and KONSOLE_VERSION
EnvMatches(env) ==
    \/ /\ IsSome(env.TERM_PROGRAM)
       /\ \E pat \in {"iTerm", "WezTerm", "mintty", "rio", "WarpTerminal"} :
              contains(Unwrap(env.TERM_PROGRAM), pat)
    \/ /\ IsSome(env.LC_TERMINAL)
       /\ \E pat \in {"iTerm", "WezTerm", "mintty", "rio"} :
              contains(Unwrap(env.LC_TERMINAL), pat)
    \/ /\ IsSome(env.KONSOLE_VERSION)
       /\ Unwrap(env.KONSOLE_VERSION) # <<>>

\* a bool as the kind of a result
BoolResult(b) == IF b THEN "true" ELSE "false"

\* the input and local mode flags of the terminal before a probe runs: a
\* terminal in canonical mode with echo
OldTermios == [c_iflag |-> {"ICRNL", "IXON"}, c_lflag |-> {"ECHO", "ICANON", "ISIG"}]

\* the flags xterm_check_sixel_support clears before it writes its query
RawTermios(term_info) ==
    [c_iflag |-> term_info.c_iflag \ {"ISTRIP", "INLCR", "ICRNL", "IGNCR", "IXOFF"},
     c_lflag |-> term_info.c_lflag \ {"ECHO", "ICANON"}]

\* data and next_idx are TestKeys's; reads counts the calls of read_key in
\* the loop at work;
\* calls lists the probes that have returned; iter is how many characters
\* of the encoded image are still to be sent; w and h are the footprint;
\* termios is the flags the terminal is set to
TtyIdle ==
    [fn |-> "none", pc |-> "idle", probe |-> "none", data |-> <<>>, next_idx |-> 0,
     reads |-> 0, response |-> <<>>, had_pda |-> FALSE, calls |-> <<>>,
     temp_file |-> "none", iter |-> 0, chunks |-> <<>>, env |-> NoEnv, w |-> 0, h |-> 0,
     termios |-> OldTermios, result |-> NoResult]

\* an escape sequence that carries a footprint of c columns and r rows
ImageCommand(t, c, r) == [Item(t, r) EXCEPT !.col = c]

\* the function returns (or panics)
TtyDone(t, kind, w, h) == [t EXCEPT !.pc = "done", !.result = Result(kind, w, h)]

\* a NamedTempFile that goes out of scope is deleted
Dropped(t) == IF t.temp_file = "open" THEN [t EXCEPT !.temp_file = "dropped"] ELSE t

\* store_in_tmp_file: the file is stored, it could not be created, or it
\* was created and goes out of scope when writing to it fails
StoreOutcomes == {"Ok", "NoFile", "WriteFailed"}

store_in_tmp_file(t, outcome) ==
    IF outcome = "Ok" THEN [t EXCEPT !.temp_file = "open"]
    ELSE IF outcome = "WriteFailed" THEN [t EXCEPT !.temp_file = "unstored"]
    ELSE t

\* temp_file.close(): the file is removed, it was removed already, or
\* removing it fails for another reason
CloseOutcomes == {"Ok", "NotFound", "Other"}

\* mutation of close_tmp_file: every error of close is returned
close_tmp_file_strict(outcome) ==
    IF outcome = "Ok" THEN [res |-> "Ok", temp_file |-> "closed"]
    ELSE IF outcome = "NotFound" THEN [res |-> "IO", temp_file |-> "not_found"]
    ELSE [res |-> "IO", temp_file |-> "close_failed"]

close_tmp_file(outcome) ==
    IF outcome = "Ok" THEN [res |-> "Ok", temp_file |-> "closed"]
    ELSE IF outcome = "NotFound" THEN [res |-> "Ok", temp_file |-> "not_found"]
    ELSE [res |-> "IO", temp_file |-> "close_failed"]

\* a probe returns res to the function that called it
ProbeReturns(t, res) ==
    LET u == [t EXCEPT !.calls = Append(@, [probe |-> t.probe, res |-> res,
                                            response |-> t.response])]
    IN  IF t.fn = "check_kitty_support" THEN
            LET c == check_kitty_support(t.probe, res = "Ok")
            IN  IF c.ret THEN TtyDone(u, c.value, 0, 0)
                ELSE [u EXCEPT !.pc = "query", !.probe = c.probe]
        ELSE IF t.fn = "check_iterm_support" THEN
            \* the environment is looked at once both probes have failed
            IF t.probe = "has_iterm_support_reportcellsize" /\ res # "Ok"
            THEN [u EXCEPT !.pc = "env"]
            ELSE LET c == check_iterm_support(t.probe, res = "Ok", FALSE)
                 IN  IF c.ret THEN TtyDone(u, BoolResult(c.value), 0, 0)
                     ELSE [u EXCEPT !.pc = "query", !.probe = c.probe]
        ELSE IF t.fn = "print_local" THEN
            \* wait_for_dsr(stdin, stdout)?; close_tmp_file(temp_file)?
            IF res = "Ok" THEN [u EXCEPT !.pc = "close"]
            ELSE TtyDone(Dropped(u), res, 0, 0)
        ELSE TtyDone(u, res, 0, 0)

\* one of the functions is called
Call ==
    /\ tty.pc = "idle"
    /\ \E f \in TtyProbes \cup TtyPrinters :
         tty' = [tty EXCEPT !.fn = f,
                            !.pc = IF f = "print_local" THEN "store"
                                   ELSE IF f \in {"print_remote", "iTermPrinter"} THEN "offset"
                                   ELSE IF f = "IcySixelPrinter" THEN "fit"
                                   ELSE IF f = "SixelPrinter" THEN "send"
                                   ELSE IF f = "xterm_check_sixel_support" THEN "xterm"
                                   ELSE "query",
                            !.probe = IF f \in TtyPrinters THEN "none"
                                      ELSE IF f = "check_kitty_support"
                                      THEN "has_remote_support"
                                      ELSE IF f = "check_iterm_support"
                                      THEN "has_iterm_support_capabilities" ELSE f]
    /\ UNCHANGED <<overflow_checks, term, geomVars, cell, probeVars, printVars>>

\* a probe up to its read loop: has_local_support stores its temp file, and
\* every probe writes its queries and flushes
SendQueries ==
    /\ tty.pc = "query"
    /\ \E outcome \in WriteOutcomes,
          stored \in IF tty.probe = "has_local_support" THEN StoreOutcomes ELSE {"Ok"} :
         LET wr == StreamWrite(Queries(tty.probe), outcome)
             t == IF tty.probe = "has_local_support"
                  THEN store_in_tmp_file(tty, stored) ELSE tty
         IN  IF stored # "Ok" THEN tty' = ProbeReturns(t, "IO") /\ UNCHANGED stdout
             ELSE IF wr.res # "Ok"
             THEN tty' = ProbeReturns(Dropped(t), "IO") /\ UNCHANGED stdout
             ELSE /\ tty' = [t EXCEPT !.pc = "read", !.response = <<>>,
                                      !.had_pda = FALSE, !.reads = 0]
                  /\ stdout' = stdout \o wr.written
    /\ UNCHANGED <<overflow_checks, term, geomVars, cell, probeVars, config, image,
                   printer, blk>>

\* one pass of while let Ok(key) = stdin.read_key() { .. }
ReadLoop ==
    /\ tty.pc = "read"
    /\ LET k == read_key(tty.data, tty.next_idx)
           b == LoopBody(tty.probe, tty.response, tty.had_pda, k.key)
       IN  IF ~k.ok THEN tty' = [tty EXCEPT !.pc = "classify", !.reads = @ + 1]
           ELSE tty' = [tty EXCEPT !.reads = @ + 1, !.next_idx = @ + 1,
                                   !.response = b.response, !.had_pda = b.had_pda,
                                   !.pc = IF b.should_break THEN "classify" ELSE "read"]
    /\ UNCHANGED <<overflow_checks, term, geomVars, cell, probeVars, printVars>>

\* a probe after its read loop: has_local_support closes its temp file, and
\* every probe matches the response
Classify ==
    /\ tty.pc = "classify"
    /\ \E outcome \in IF tty.probe = "has_local_support" THEN CloseOutcomes ELSE {"Ok"} :
         LET c == close_tmp_file(outcome)
             t == IF tty.probe = "has_local_support"
                  THEN [tty EXCEPT !.temp_file = c.temp_file] ELSE tty
         IN  tty' = ProbeReturns(t, IF c.res = "Ok"
                                    THEN ProbeResult(tty.probe, tty.response) ELSE c.res)
    /\ UNCHANGED <<overflow_checks, term, geomVars, cell, probeVars, printVars>>

\* check_iterm_support after both probes have failed: the environment
\* variables decide
CheckEnv ==
    /\ tty.pc = "env"
    /\ \E environ \in Environments :
         LET c == check_iterm_support(tty.probe, FALSE, EnvMatches(environ))
         IN  tty' = TtyDone([tty EXCEPT !.env = [environ EXCEPT !.read = TRUE]],
                            BoolResult(c.value), 0, 0)
    /\ UNCHANGED <<overflow_checks, term, geomVars, cell, probeVars, printVars>>

\* print_local: let temp_file = store_in_tmp_file(raw_img)?
StoreInTmpFile ==
    /\ tty.pc = "store"
    /\ \E stored \in StoreOutcomes :
         tty' = IF stored = "Ok" THEN [store_in_tmp_file(tty, stored) EXCEPT !.pc = "offset"]
                ELSE TtyDone(store_in_tmp_file(tty, stored), "IO", 0, 0)
    /\ UNCHANGED <<overflow_checks, term, geomVars, cell, probeVars, printVars>>

\* adjust_offset(stdout, config)? in print_local, print_remote, print_buffer
\* of iterm.rs and, after find_best_fit, in IcySixelPrinter::print
AdjustOffset ==
    /\ tty.pc = "offset"
    /\ \E outcome \in WriteOutcomes :
         LET off == adjust_offset(config)
         IN  IF off.kind # "Ok"
             THEN tty' = TtyDone(Dropped(tty), off.kind, 0, 0) /\ UNCHANGED stdout
             ELSE IF outcome # "Ok"
             THEN tty' = TtyDone(Dropped(tty), "IO", 0, 0) /\ UNCHANGED stdout
             ELSE /\ tty' = [tty EXCEPT !.pc = IF tty.fn = "IcySixelPrinter"
                                               THEN "send" ELSE "fit"]
                  /\ stdout' = stdout \o off.buf
    /\ UNCHANGED <<overflow_checks, term, geomVars, cell, probeVars, config, image,
                   printer, blk>>

\* let (w, h) = find_best_fit(img, config.width, config.height)
FindBestFit ==
    /\ tty.pc = "fit"
    /\ \E fit \in {find_best_fit(image, config.width, config.height)} :
           tty' = IF fit.panic THEN TtyDone(Dropped(tty), "panic", 0, 0)
                  ELSE [tty EXCEPT !.w = fit.w, !.h = fit.h,
                                   !.pc = IF tty.fn = "IcySixelPrinter"
                                          THEN "offset" ELSE "send"]
    /\ UNCHANGED <<overflow_checks, term, geomVars, cell, probeVars, printVars>>

\* print_local: the command that names the temp file and declares the
\* footprint, then wait_for_dsr
PrintLocalSend ==
    /\ tty.pc = "send"
    /\ tty.fn = "print_local"
    /\ \E outcome \in WriteOutcomes :
         IF outcome # "Ok" THEN tty' = TtyDone(Dropped(tty), "IO", 0, 0) /\ UNCHANGED stdout
         ELSE /\ tty' = [tty EXCEPT !.probe = "wait_for_dsr", !.pc = "query"]
              /\ stdout' = Append(stdout, ImageCommand("ESC_Gf=32,a=T,t=t", tty.w, tty.h))
    /\ UNCHANGED <<overflow_checks, term, geomVars, cell, probeVars, config, image,
                   printer, blk>>

\* close_tmp_file(temp_file)?; Ok((w, h))
PrintLocalEnd ==
    /\ tty.pc = "close"
    /\ \E outcome \in CloseOutcomes :
         LET c == close_tmp_file(outcome)
             t == [tty EXCEPT !.temp_file = c.temp_file]
         IN  tty' = IF c.res = "Ok" THEN TtyDone(t, "Ok", tty.w, tty.h)
                    ELSE TtyDone(t, c.res, 0, 0)
    /\ UNCHANGED <<overflow_checks, term, geomVars, cell, probeVars, printVars>>

\* encoded.chars().count() for the raw RGBA bytes of the image
EncodedLen(img) == 4 * ((4 * img.w * img.h + 2) \div 3)

\* the length of a chunk
ChunkSize == 4096

Min(a, b) == IF a <= b THEN a ELSE b

\* mutation of take: every chunk has n characters
take_full(iter, n) == n

\* the number of characters of iter.by_ref().take(n).collect(), for an
\* iterator with iter characters left
take(iter, n) == Min(iter, n)

\* the characters of encoded that a chunk holds: len of them, from position
\* from, when the iterator has iter characters left
ChunkOf(iter, len) == [from |-> EncodedLen(image) - iter + 1, len |-> len]

\* print_remote: the first chunk, which describes the image
PrintRemoteFirst ==
    /\ tty.pc = "send"
    /\ tty.fn = "print_remote"
    /\ \E outcome \in WriteOutcomes :
         LET first_chunk == take(EncodedLen(image), ChunkSize)
         IN  IF outcome # "Ok" THEN tty' = TtyDone(tty, "IO", 0, 0) /\ UNCHANGED stdout
             ELSE /\ tty' = [tty EXCEPT !.pc = "chunks",
                                        !.iter = EncodedLen(image) - first_chunk,
                                        !.chunks = <<ChunkOf(EncodedLen(image),
                                                             first_chunk)>>]
                  /\ stdout' = Append(stdout,
                                      ImageCommand("ESC_Gf=32,a=T,t=d,m=1", tty.w, tty.h))
    /\ UNCHANGED <<overflow_checks, term, geomVars, cell, probeVars, config, image,
                   printer, blk>>

\* one pass of while iter.peek().is_some() { .. }
PrintRemoteChunk ==
    /\ tty.pc = "chunks"
    /\ tty.iter > 0
    /\ \E outcome \in WriteOutcomes :
         LET chunk == take(tty.iter, ChunkSize)
             m == IF tty.iter - chunk > 0 THEN 1 ELSE 0
         IN  IF outcome # "Ok" THEN tty' = TtyDone(tty, "IO", 0, 0) /\ UNCHANGED stdout
             ELSE /\ tty' = [tty EXCEPT !.iter = @ - chunk,
                                        !.chunks = Append(@, ChunkOf(tty.iter, chunk))]
                  /\ stdout' = Append(stdout, Item("ESC_Gm=", m))
    /\ UNCHANGED <<overflow_checks, term, geomVars, cell, probeVars, config, image,
                   printer, blk>>

\* stdout.flush()?; Ok((w, h))
PrintRemoteEnd ==
    /\ tty.pc = "chunks"
    /\ tty.iter = 0
    /\ \E outcome \in WriteOutcomes :
         tty' = IF outcome = "Ok" THEN TtyDone(tty, "Ok", tty.w, tty.h)
                ELSE TtyDone(tty, "IO", 0, 0)
    /\ UNCHANGED <<overflow_checks, term, geomVars, cell, probeVars, printVars>>

\* the bytes the terminal sent for a key: an escape sequence is the escape
\* character and the characters after it, and Key::Unknown stands for no
\* byte at all
KeyBytes(key) ==
    IF key \in Chars THEN <<key>>
    ELSE IF key = "ESC[?6" THEN <<"ESC", "[", "?", "6">>
    ELSE IF key = "ESC[?1" THEN <<"ESC", "[", "?", "1">>
    ELSE IF key = "ESC[0n" THEN <<"ESC", "[", "0", "n">>
    ELSE IF key = "ESC\\" THEN <<"ESC", "\\">>
    ELSE IF key = "ESC_" THEN <<"ESC", "_">>
    ELSE IF key = "ESC]" THEN <<"ESC", "]">>
    ELSE <<>>

RECURSIVE ReplyBytes(_)
ReplyBytes(keys) ==
    IF keys = <<>> THEN <<>> ELSE KeyBytes(Head(keys)) \o ReplyBytes(Tail(keys))

\* the length of std_in_buffer
StdInBufferLen == 256

\* xterm_check_sixel_support on the bytes read: the byte 52 anywhere
xterm_check_sixel_support(buf) ==
    IF \E i \in DOMAIN buf : buf[i] = "4" THEN "Local" ELSE "None"

\* xterm_check_sixel_support of sixel.rs as a whole: the flags are cleared
\* (raw: Termios::from_fd and the first tcsetattr succeed), the query is
\* written, one read takes what has arrived, and the old flags are set
\* again; every ? returns at once
XtermCheckSixelSupport ==
    /\ tty.pc = "xterm"
    /\ \E raw \in BOOLEAN, outcome \in WriteOutcomes, read \in BOOLEAN, restored \in BOOLEAN :
         LET bytes == ReplyBytes(tty.data)
             size_read == Min(Len(bytes), StdInBufferLen)
             std_in_buffer == SubSeq(bytes, 1, size_read)
             changed == [tty EXCEPT !.termios = RawTermios(@)]
         IN  IF ~raw
             THEN tty' = TtyDone(tty, "IO", 0, 0) /\ UNCHANGED stdout
             ELSE IF outcome # "Ok"
             THEN tty' = TtyDone(changed, "IO", 0, 0) /\ UNCHANGED stdout
             ELSE /\ stdout' = Append(stdout, Item("ESC[0c", 0))
                  /\ tty' = IF ~read THEN TtyDone([changed EXCEPT !.reads = 1], "IO", 0, 0)
                            ELSE IF ~restored
                            THEN TtyDone([changed EXCEPT !.next_idx = Len(tty.data),
                                                         !.reads = 1], "IO", 0, 0)
                            ELSE TtyDone([tty EXCEPT !.next_idx = Len(tty.data),
                                                     !.reads = 1],
                                         xterm_check_sixel_support(std_in_buffer), 0, 0)
    /\ UNCHANGED <<overflow_checks, term, geomVars, cell, probeVars, config, image,
                   printer, blk>>

\* mutation of print_newline: the newline is written whatever the width
print_newline_always(cfg, width) == [panic |-> FALSE, newline |-> TRUE]

\* print_newline: whether config.x + (width as u16) < term_w; the sum is a
\* u16 sum, which panics with overflow checks and wraps without
print_newline(cfg, width) ==
    LET sum == cfg.x + AsU16(width)
    IN  IF sum >= TwoTo16 /\ overflow_checks THEN [panic |-> TRUE, newline |-> FALSE]
        ELSE [panic |-> FALSE, newline |-> AsU16(sum) < term[1]]

\* KittyPrinter::print after print_local or print_remote has returned Ok:
\* print_newline(stdout, config, result.0)?; Ok(result)
PrintNewline ==
    /\ tty.fn \in {"print_local", "print_remote"}
    /\ tty.pc = "done"
    /\ tty.result.kind = "Ok"
    /\ \E outcome \in WriteOutcomes :
         LET nl == print_newline(config, tty.result.w)
         IN  IF nl.panic
             THEN tty' = [TtyDone(tty, "panic", 0, 0) EXCEPT !.pc = "printed"]
                  /\ UNCHANGED stdout
             ELSE IF ~nl.newline
             THEN tty' = [tty EXCEPT !.pc = "printed"] /\ UNCHANGED stdout
             ELSE IF outcome # "Ok"
             THEN tty' = [TtyDone(tty, "IO", 0, 0) EXCEPT !.pc = "printed"]
                  /\ UNCHANGED stdout
             ELSE /\ tty' = [tty EXCEPT !.pc = "printed"]
                  /\ stdout' = Append(stdout, Newline)
    /\ UNCHANGED <<overflow_checks, term, geomVars, cell, probeVars, config, image,
                   printer, blk>>

\* print_buffer of iterm.rs: the File= sequence with the footprint
ITermSend ==
    /\ tty.pc = "send"
    /\ tty.fn = "iTermPrinter"
    /\ \E outcome \in WriteOutcomes :
         IF outcome # "Ok" THEN tty' = TtyDone(tty, "IO", 0, 0) /\ UNCHANGED stdout
         ELSE /\ tty' = TtyDone(tty, "Ok", tty.w, tty.h)
              /\ stdout' = stdout \o <<ImageCommand("ESC]1337;File=inline=1", tty.w, tty.h),
                                       Newline>>
    /\ UNCHANGED <<overflow_checks, term, geomVars, cell, probeVars, config, image,
                   printer, blk>>

\* IcySixelPrinter::print: the image resized to 6 x 12 pixels a cell goes
\* out as a sixel string; encoded is whether sixel_string returned Ok
IcySixelSend ==
    /\ tty.pc = "send"
    /\ tty.fn = "IcySixelPrinter"
    /\ \E outcome \in WriteOutcomes, encoded \in BOOLEAN :
         IF ~encoded THEN tty' = TtyDone(tty, "IcySixelError", 0, 0) /\ UNCHANGED stdout
         ELSE IF outcome # "Ok" THEN tty' = TtyDone(tty, "IO", 0, 0) /\ UNCHANGED stdout
         ELSE /\ tty' = TtyDone(tty, "Ok", tty.w, tty.h)
              /\ stdout' = Append(stdout, ImageCommand("sixel_string",
                                                       Min(6 * tty.w, 1000), 12 * tty.h))
    /\ UNCHANGED <<overflow_checks, term, geomVars, cell, probeVars, config, image,
                   printer, blk>>

\* SixelPrinter::print: print_sixel encodes the image as it is, pixel for
\* pixel, and the result is the size of the image; encoded is whether the
\* encoder returned Ok
SixelPrint ==
    /\ tty.pc = "send"
    /\ tty.fn = "SixelPrinter"
    /\ \E encoded \in BOOLEAN :
         IF ~encoded THEN tty' = TtyDone(tty, "SixelError", 0, 0) /\ UNCHANGED stdout
         ELSE /\ tty' = TtyDone([tty EXCEPT !.w = image.w, !.h = image.h],
                                "Ok", image.w, image.h)
              /\ stdout' = stdout \o <<ImageCommand("encode_bytes", image.w, image.h),
                                       Newline, Newline>>
    /\ UNCHANGED <<overflow_checks, term, geomVars, cell, probeVars, config, image,
                   printer, blk>>

(***************************************************************************)
(* The specifications.  Each one starts the part of the program it runs    *)
(* from its inputs and leaves the other parts at rest.                     *)
(***************************************************************************)
ProbesAtRest ==
    /\ th = [t \in Threads |-> Idle]
    /\ sent = [s \in AllProbes |-> 0]
    /\ returned = [p \in Protocols |-> {}]
    /\ ncalls = [p \in Protocols |-> 0]
    /\ started = 0

PrinterAtRest ==
    /\ config = DefaultConfig
    /\ image \in ImagesOf(0, 0)
    /\ printer = "none"
    /\ blk = BlkIdle
    /\ stdout = <<>>
    /\ tty = TtyIdle

GeomInit ==
    /\ overflow_checks \in BOOLEAN
    /\ term \in terminal_size
    /\ geo = NoCall
    /\ cell = [p \in Protocols |-> Uninit(p)]
    /\ ProbesAtRest
    /\ PrinterAtRest

GeomNext ==
    \/ CallFitDimensions
    \/ CallFindBestFit
    \/ CallResize

SpecGeom == GeomInit /\ [][GeomNext]_vars

\* the accessors, called by NThreads threads, MaxCalls times in all
ProbeInit ==
    /\ overflow_checks = FALSE
    /\ term = DEFAULT_TERM_SIZE
    /\ geo = NoCall
    /\ cell = [p \in Protocols |-> Uninit(p)]
    /\ ProbesAtRest
    /\ PrinterAtRest

ProbeNext ==
    \E t \in Threads :
        \/ \E p \in Protocols : CallAccessor(t, p)
        \/ SendQuery(t)
        \/ ReadKey(t)
        \/ ReadLastKey(t)
        \/ Wake(t)

SpecProbe == ProbeInit /\ [][ProbeNext]_vars

\* the capability results the statics can hold once the probes have run
CachedCells ==
    [kitty : {Done(v) : v \in KittySupport},
     iterm : {Done(v) : v \in BOOLEAN},
     sixel : {Done(v) : v \in BOOLEAN}]

NothingSupported == [kitty |-> Done("None"), iterm |-> Done(FALSE), sixel |-> Done(FALSE)]

\* the inputs of print: the vertical and horizontal offsets in both modes
OffsetInputs ==
    {[config |-> [DefaultConfig EXCEPT !.resize = r, !.absolute_offset = a, !.x = x, !.y = y,
                                       !.transparent = tr],
      image |-> img, overflow_checks |-> oc, cell |-> NothingSupported] :
        r \in BOOLEAN, a \in BOOLEAN, x \in {0, 2}, y \in {I16Min, -1, 0, 2},
        tr \in BOOLEAN,
        img \in ImagesOf(1, 1) \cup ImagesOf(1, 2) \cup ImagesOf(1, 3), oc \in BOOLEAN}

\* the inputs of print: every image up to MaxW x MaxH, with and without
\* the transparent and truecolor options
PixelInputs ==
    {[config |-> [DefaultConfig EXCEPT !.resize = FALSE, !.absolute_offset = FALSE,
                                       !.transparent = tr, !.truecolor = tc],
      image |-> img, overflow_checks |-> FALSE, cell |-> NothingSupported] :
        tr \in BOOLEAN, tc \in BOOLEAN,
        img \in UNION {ImagesOf(w, h) : w \in 1..MaxW, h \in 0..MaxH}
                  \cup ImagesOf(1, MaxH + 1)}

\* the inputs of print: resizing, to the terminal and to a requested size
ResizeInputs ==
    {[config |-> [DefaultConfig EXCEPT !.absolute_offset = FALSE, !.width = width,
                                       !.height = height],
      image |-> img, overflow_checks |-> FALSE, cell |-> NothingSupported] :
        width \in {None, Some(1)}, height \in {None, Some(1)},
        img \in UNION {ImagesOf(w, h) : w \in 1..MaxW, h \in 1..2}}

\* the inputs of print: the use_kitty flag and the cached capability results
DispatchInputs ==
    {[config |-> [DefaultConfig EXCEPT !.use_kitty = k, !.absolute_offset = FALSE],
      image |-> img, overflow_checks |-> FALSE, cell |-> c] :
        k \in BOOLEAN, c \in CachedCells,
        img \in {i \in ImagesOf(1, 2) : \A r \in 1..2 : i.px[r][1].alpha = 255}}

InputsOfPrint == OffsetInputs \cup PixelInputs \cup ResizeInputs \cup DispatchInputs

Init ==
    /\ term = DEFAULT_TERM_SIZE
    /\ geo = NoCall
    /\ ProbesAtRest
    /\ printer = "none"
    /\ blk = BlkIdle
    /\ stdout = <<>>
    /\ tty = TtyIdle
    /\ \E in \in InputsOfPrint :
         /\ config = in.config
         /\ image = in.image
         /\ overflow_checks = in.overflow_checks
         /\ cell = in.cell

Next ==
    \/ print
    \/ BlockBegin
    \/ BlockRow
    \/ BlockEnd
    \/ WriteColorBegin
    \/ WriteColorRow
    \/ WriteColorEnd

Spec == Init /\ [][Next]_vars

\* the replies of a terminal to the probes, as the tests script them: the
\* device attributes, the Kitty answers, the status report, the iTerm
\* capabilities and cell size
DeviceAttrs == <<"ESC[?6", "2", ";", "4", "c">>

Replies ==
    {expected \o DeviceAttrs,
     DeviceAttrs,
     <<"ESC_", "G", "i", "=", "3", "1", ";", "E", "ESC\\">>,
     <<"ESC[0n">>,
     \* device attributes without sixel: class 64, and the attribute 14
     <<"ESC[?6", "4", ";", "1", "c">>,
     <<"ESC[?6", "2", ";", "1", "4", "c">>,
     \* device attributes as should_detect_device_attrs has them, and more
     <<"ESC[?6", "2", ";", "1", ";", "4", ";", "6", "c">>,
     <<"ESC]", "1", "3", "3", "7", ";", "C", "a", "p", "a", "b", "i", "l", "i", "t",
       "i", "e", "s", "=", "F", "ESC\\", "ESC[0n">>,
     <<"ESC]", "1", "3", "3", "7", ";", "R", "e", "p", "o", "r", "t", "C", "e", "l",
       "l", "S", "i", "z", "e", "=", "8", ";", "1", "ESC\\", "ESC[0n">>,
     expected \o DeviceAttrs \o expected}

\* the keys a reply is disturbed with
EditKeys == {"Unknown", "ESC\\", "ESC[0n", "ESC[?1", "c", "O", "F", "e"}

\* the scripts: the replies, cut short at any key, with any one key
\* replaced, and with one more key in front or behind
\* replies that echo an identifier: ReportCellSize after a key R, alone,
\* and ReportVariable
EchoScripts ==
    {<<"R", "ESC]", "1", "3", "3", "7", ";", "R", "e", "p", "o", "r", "t", "C", "e", "l",
       "l", "S", "i", "z", "e", "=", "8", ";", "1", "ESC\\", "ESC[0n">>,
     <<"R", "e", "p", "o", "r", "t", "C", "e", "l", "l", "S", "i", "z", "e", "ESC[0n">>,
     <<"ESC]", "1", "3", "3", "7", ";", "R", "e", "p", "o", "r", "t", "V", "a", "r",
       "i", "a", "b", "l", "e", "=", "a", "b", "c", "ESC\\", "ESC[0n">>}

Scripts ==
    UNION {{SubSeq(s, 1, n) : n \in 0..Len(s)}
               \cup {[s EXCEPT ![i] = k] : i \in DOMAIN s, k \in EditKeys}
               \cup {<<k>> \o s : k \in EditKeys}
               \cup {s \o <<k>> : k \in EditKeys} : s \in Replies}
        \cup EchoScripts
        \* the device attributes ahead of the Kitty answer
        \cup {DeviceAttrs \o expected}

\* an image of w x h pixels; the protocol printers send the pixels as they
\* are, and their values play no part
Blank(w, h) == [w |-> w, h |-> h, px |-> <<>>]

\* the inputs of the probes and printers: every script with the default
\* Config, and a few scripts with the offsets, the requested sizes and
\* images of one, two and three chunks
TermInputs ==
    {[config |-> DefaultConfig, image |-> Blank(1, 2), overflow_checks |-> FALSE,
      data |-> s] : s \in Scripts}
    \cup
    {[config |-> [DefaultConfig EXCEPT !.absolute_offset = a, !.x = x, !.y = y,
                                       !.width = width, !.height = height],
      image |-> img, overflow_checks |-> oc, data |-> s] :
        a \in BOOLEAN, x \in {0, 1}, y \in {-1, 0, 1},
        width \in {None, Some(1)}, height \in {None, Some(2)},
        img \in {Blank(1, 1), Blank(2, 3), Blank(32, 24), Blank(32, 25), Blank(64, 25)},
        oc \in BOOLEAN, s \in {<<>>, <<"ESC[0n">>}}
    \cup
    \* images whose right edge is near the last column, and beyond it
    {[config |-> [DefaultConfig EXCEPT !.absolute_offset = FALSE, !.x = x,
                                       !.width = Some(width), !.height = Some(1)],
      image |-> Blank(1, 1), overflow_checks |-> oc, data |-> <<"ESC[0n">>] :
        x \in {0, 78, 79, 80, TwoTo16 - 1}, width \in {1, 2, 80}, oc \in BOOLEAN}

TermInit ==
    /\ term = DEFAULT_TERM_SIZE
    /\ geo = NoCall
    /\ cell = NothingSupported
    /\ ProbesAtRest
    /\ printer = "none"
    /\ blk = BlkIdle
    /\ stdout = <<>>
    /\ \E in \in TermInputs :
         /\ config = in.config
         /\ image = in.image
         /\ overflow_checks = in.overflow_checks
         /\ tty = [TtyIdle EXCEPT !.data = in.data]

TermNext ==
    \/ Call
    \/ SendQueries
    \/ ReadLoop
    \/ Classify
    \/ CheckEnv
    \/ StoreInTmpFile
    \/ AdjustOffset
    \/ FindBestFit
    \/ PrintLocalSend
    \/ PrintLocalEnd
    \/ PrintRemoteFirst
    \/ PrintRemoteChunk
    \/ PrintRemoteEnd
    \/ PrintNewline
    \/ XtermCheckSixelSupport
    \/ ITermSend
    \/ IcySixelSend
    \/ SixelPrint

SpecTerm == TermInit /\ [][TermNext]_vars

\* a probe that is in its read loop goes on with it: the code is sequential
LiveSpecTerm == SpecTerm /\ WF_vars(ReadLoop)

(***************************************************************************)
(* Claims about the geometry functions, checked under SpecGeom.            *)
(***************************************************************************)
\* q = floor(a * b / d), stated on exact products: q*d <= a*b < (q+1)*d
IsFloorOf(q, a, b, d) ==
    /\ Le64(Mul64(q, d), Mul64(a, b))
    /\ Lt64(Mul64(a, b), Mul64(q + 1, d))

FitCall == geo.op = "fit_dimensions"
BestFitCall == geo.op = "find_best_fit"
ResizeCall == geo.op = "resize"

\* C1: for all positive image sizes (w,h) and positive bounds (bw,bh),
\* fit_dimensions returns a pair inside the bound box, the binding axis equal
\* to its bound and the other the floor of the aspect-preserving value:
\* (bw, floor(h*bw/w)) if bw*h <= w*bh, else (floor(w*bh/h), bh).
C1_FitDimensionsExact ==
    FitCall =>
        LET w == geo.args[1]
            h == geo.args[2]
            bw == geo.args[3]
            bh == geo.args[4]
        IN  (w >= 1 /\ h >= 1 /\ bw >= 1 /\ bh >= 1) =>
                /\ ~geo.res.panic
                /\ geo.res.w <= bw
                /\ geo.res.h <= bh
                /\ IF Le64(Mul64(bw, h), Mul64(w, bh))
                   THEN geo.res.w = bw /\ IsFloorOf(geo.res.h, h, bw, w)
                   ELSE geo.res.h = bh /\ IsFloorOf(geo.res.w, w, bh, h)

\* C2: for every image size >= (1,1) and every bound >= (1,1) fit_dimensions
\* returns at least 1 on both axes.  Stated here for the sizes and bounds up
\* to MaxDim, where no product overflows.
C2_FitDimensionsAtLeastOne ==
    FitCall =>
        ((\A i \in 1..4 : geo.args[i] \in 1..MaxDim) =>
            /\ ~geo.res.panic
            /\ geo.res.w >= 1
            /\ geo.res.h >= 1)

\* C3: find_best_fit(img, Some(w), Some(h)) returns exactly (w, h), for every
\* image and every requested w and h.
C3_ExactFitReturnsRequest ==
    BestFitCall =>
        LET width == geo.args[2]
            height == geo.args[3]
        IN  (IsSome(width) /\ IsSome(height)) =>
                /\ ~geo.res.panic
                /\ geo.res.w = Unwrap(width)
                /\ geo.res.h = Unwrap(height)

\* C4: with neither width nor height given, find_best_fit returns a footprint
\* inside the terminal with one row reserved: width <= columns and
\* height <= rows - 1, for every image (of positive size).
C4_NoneNoneFitsTerminal ==
    BestFitCall =>
        LET img == geo.args[1]
        IN  (~IsSome(geo.args[2]) /\ ~IsSome(geo.args[3]) /\ img.w >= 1 /\ img.h >= 1) =>
                /\ ~geo.res.panic
                /\ geo.res.w <= term[1]
                /\ geo.res.h <= term[2] - 1

\* C5: with exactly one of width/height given, find_best_fit never exceeds
\* the supplied bound and returns that bound whenever its axis is the binding
\* one (the other axis then being the aspect-preserving value, 2 pixel rows
\* per cell row).
C5_OneGivenKeepsBound ==
    BestFitCall =>
        LET img == geo.args[1]
            width == geo.args[2]
            height == geo.args[3]
        IN  /\ (IsSome(width) /\ ~IsSome(height) /\ img.w >= 1 /\ img.h >= 1
                    /\ Unwrap(width) >= 1) =>
                    /\ ~geo.res.panic
                    /\ geo.res.w <= Unwrap(width)
                    \* the width binds when w * ih <= iw * (2 * ih), that is w <= 2 * iw
                    /\ (Unwrap(width) <= 2 * img.w) =>
                           /\ geo.res.w = Unwrap(width)
                           /\ \E ph \in {2 * geo.res.h, 2 * geo.res.h + 1} :
                                 IsFloorOf(ph, img.h, Unwrap(width), img.w)
            /\ (~IsSome(width) /\ IsSome(height) /\ img.w >= 1 /\ img.h >= 1
                    /\ Unwrap(height) >= 1) =>
                    /\ ~geo.res.panic
                    /\ geo.res.h <= Unwrap(height)
                    \* the height binds when iw * ih > iw * (2 * h), that is ih > 2 * h
                    /\ (img.h > 2 * Unwrap(height)) =>
                           /\ geo.res.h = Unwrap(height)
                           /\ IsFloorOf(geo.res.w, img.w, 2 * Unwrap(height), img.h)

\* C6: for every image and every combination of optional width/height the
\* image returned by resize has pixel dimensions exactly (cell_w, 2*cell_h),
\* where (cell_w, cell_h) is what find_best_fit returns for the same
\* arguments.
C6_ResizeMatchesBestFit ==
    ResizeCall =>
        LET img == geo.args[1]
            cells == find_best_fit(img, geo.args[2], geo.args[3])
        IN  (img.w >= 1 /\ img.h >= 1) =>
                /\ ~geo.res.panic
                /\ ~cells.panic
                /\ geo.res.w = cells.w
                /\ geo.res.h = 2 * cells.h

(***************************************************************************)
(* Claims about the capability accessors, checked under SpecProbe.         *)
(***************************************************************************)
\* C8: the capability accessors are memoized: for each protocol, once any
\* number N >= 1 of calls of its accessor have returned, exactly one probe
\* transaction has been written to the terminal (the check function's first
\* query once, and no query of it twice) and all N calls returned the same
\* value.
C8_AccessorsMemoized ==
    \A p \in Protocols :
        ncalls[p] >= 1 =>
            /\ sent[FirstProbe(p)] = 1
            /\ \A s \in Probes(p) : sent[s] <= 1
            /\ Cardinality(returned[p]) = 1

\* C8 witness: an accessor has returned from two calls, one of them the
\* call that ran the probe.
C8_Witness ==
    \E p \in Protocols : ncalls[p] >= 2 /\ sent[FirstProbe(p)] = 1

\* C9: when several threads make first calls to the accessors at the same
\* time, probe transactions never overlap: no two probe read loops (of the
\* same or of different protocols) read the terminal input at once, and no
\* probe's query is sent twice.
C9_ProbesNeverOverlap ==
    /\ Cardinality({t \in Threads : th[t].pc = "read"}) <= 1
    /\ \A s \in AllProbes : sent[s] <= 1

(***************************************************************************)
(* Claims about print and the block printer, checked under Spec.           *)
(***************************************************************************)
\* the backend the dispatcher of the specification selects; use_sixel and
\* use_iterm are the flags of its Configuration that Config does not have
Dispatch(use_sixel, use_iterm, use_kitty) ==
    IF use_sixel /\ cell["sixel"].value THEN "SixelPrinter"
    ELSE IF use_iterm /\ cell["iterm"].value THEN "iTermPrinter"
    ELSE IF use_kitty /\ cell["kitty"].value # "None" THEN "KittyPrinter"
    ELSE "BlockPrinter"

\* C7: print selects the backend in strict priority order from the
\* configuration flags and the cached capability results: Sixel if enabled
\* and supported, else iTerm if enabled and supported, else Kitty if enabled
\* and not unsupported, else the block printer.  Stated for some setting of
\* the Sixel and iTerm flags, which Config lacks.
C7_BackendByPriority ==
    printer # "none" =>
        \E use_sixel \in BOOLEAN, use_iterm \in BOOLEAN :
            printer = Dispatch(use_sixel, use_iterm, config.use_kitty)

\* C10: with absolute_offset set and a negative y, print returns an
\* InvalidConfiguration error, and nothing has been written to the standard
\* output at any time before it returns.
C10_NegativeAbsoluteYRejected ==
    (config.absolute_offset /\ config.y < 0) =>
        /\ stdout = <<>>
        /\ blk.pc = "done" => blk.result.kind = "InvalidConfiguration"

\* C10 witness: print has returned the error for an image that has pixels
\* to print, with absolute_offset set and a negative y.
C10_Witness ==
    /\ config.absolute_offset
    /\ config.y < 0
    /\ image.h >= 2
    /\ blk.pc = "done"
    /\ blk.result.kind = "InvalidConfiguration"
    /\ stdout = <<>>

\* what the block printer has written: what reached the standard output,
\* and what print_buffer left in out_buffer when a broken pipe was swallowed
Emitted == stdout \o blk.out_buffer

\* what was written after the cursor adjustment
Body ==
    LET n == Len(adjust_offset([config EXCEPT !.x = 0]).buf)
    IN  SubSeq(Emitted, n + 1, Len(Emitted))

IsLineEnd(item) == item.t \in {"\n", "\r\n"}
IsGlyph(item) == item.t \in {"UPPER_HALF_BLOCK", "LOWER_HALF_BLOCK"}

\* the line-terminated rows of s, and what follows the last line end
RECURSIVE SplitRows(_, _, _)
SplitRows(s, cur, acc) ==
    IF s = <<>> THEN [rows |-> acc, rest |-> cur]
    ELSE IF IsLineEnd(Head(s)) THEN SplitRows(Tail(s), <<>>, Append(acc, cur))
    ELSE SplitRows(Tail(s), Append(cur, Head(s)), acc)

CellRows == SplitRows(Body, <<>>, <<>>)

Count(row, P(_)) == Cardinality({i \in 1..Len(row) : P(row[i])})

IsReset(item) == item.t = "reset"

Opaque(img) == \A r \in 1..img.h, c \in 1..img.w : img.px[r][c].alpha # 0

PrintedOk == blk.pc = "done" /\ blk.result.kind = "Ok"

\* C11: printing a fully opaque image of width W and even height H with the
\* block printer (BlockPrinter::print or print_to_writecolor) writes exactly
\* H/2 line-terminated rows of cells, each with exactly W half-block glyphs
\* and at least one colour reset.
C11_OpaqueEvenImageRows ==
    (PrintedOk /\ Opaque(blk.img) /\ blk.img.h % 2 = 0) =>
        /\ CellRows.rest = <<>>
        /\ Len(CellRows.rows) = blk.img.h \div 2
        /\ \A i \in 1..Len(CellRows.rows) :
              /\ Count(CellRows.rows[i], IsGlyph) = blk.img.w
              /\ Count(CellRows.rows[i], IsReset) >= 1

\* C11 witness: an opaque image of two cell rows has been printed and
\* everything written has reached the standard output.
C11_Witness ==
    /\ PrintedOk
    /\ Opaque(blk.img)
    /\ blk.img.h = 4
    /\ blk.out_buffer = <<>>
    /\ Len(CellRows.rows) = 2


AllTransparent(img) == \A r \in 1..img.h, c \in 1..img.w : img.px[r][c].alpha = 0

IsAdvance(item) == item = MoveRight(1)

\* C12: for every image whose pixels all have alpha 0, printing with
\* transparent = true writes no glyph and no colour: each row consists of
\* exactly W one-column cursor advances, the row's reset and its line end
\* (and the move to the horizontal offset when x > 0).
C12_TransparentImageNoGlyph ==
    (config.transparent /\ AllTransparent(blk.img) /\ blk.pc \in {"rows", "w_rows", "done"}) =>
        /\ \A i \in 1..Len(Body) : ~IsGlyph(Body[i]) /\ Body[i].t # "set_color"
        /\ PrintedOk =>
              /\ CellRows.rest = <<>>
              /\ Len(CellRows.rows) = (blk.img.h + 1) \div 2
              /\ \A i \in 1..Len(CellRows.rows) :
                    LET row == CellRows.rows[i]
                    IN  /\ Count(row, IsAdvance) = blk.img.w
                        /\ \A j \in 1..Len(row) :
                              \/ IsAdvance(row[j])
                              \/ IsReset(row[j])
                              \/ config.x > 0 /\ row[j] = MoveRight(config.x)

\* C12 witness: a transparent image of a full row and a half row of cells
\* has been printed with transparent = true.
C12_Witness ==
    /\ PrintedOk
    /\ config.transparent
    /\ AllTransparent(blk.img)
    /\ blk.img.h = 3
    /\ Len(CellRows.rows) = 2
    /\ blk.out_buffer = <<>>

\* C13: the height the block printer returns equals the number of
\* line-terminated rows of cells it wrote, that is ceil(H/2) for an image of
\* pixel height H (odd heights included), and the width it returns equals
\* the number of cells per row.
C13_ReturnedSizeIsRowsWritten ==
    PrintedOk =>
        /\ blk.result.h = Len(CellRows.rows)
        /\ blk.result.h = (blk.img.h + 1) \div 2
        /\ blk.result.w = blk.img.w


(***************************************************************************)
(* Claims about the probes and the protocol printers, checked under        *)
(* SpecTerm.                                                               *)
(***************************************************************************)
\* the footprint a printer declared to the terminal: the columns and rows of
\* the commands that carry them
Declared ==
    {<<stdout[i].col, stdout[i].n>> : i \in {j \in DOMAIN stdout :
        stdout[j].t \in {"ESC_Gf=32,a=T,t=t", "ESC_Gf=32,a=T,t=d,m=1",
                         "ESC]1337;File=inline=1"}}}

PrinterReturnedOk == tty.fn \in TtyPrinters /\ tty.pc = "done" /\ tty.result.kind = "Ok"

BestFitOfInput == find_best_fit(image, config.width, config.height)

\* C14: every protocol backend (Kitty local-file, Kitty remote, iTerm,
\* Sixel) returns as its result exactly the cell footprint (w, h) that
\* find_best_fit computes for the image and config.width / config.height,
\* which is also the footprint it declared to the terminal.
C14_BackendsReturnBestFit ==
    PrinterReturnedOk =>
        /\ ~BestFitOfInput.panic
        /\ tty.result.w = BestFitOfInput.w
        /\ tty.result.h = BestFitOfInput.h
        /\ Declared \subseteq {<<BestFitOfInput.w, BestFitOfInput.h>>}

\* C14 without SixelPrinter of sixel.rs, for comparison: the other four
\* backends keep the contract
C14_ExceptSixelPrinter == tty.fn # "SixelPrinter" => C14_BackendsReturnBestFit

\* s ends with suf, and s begins with pre
EndsWith(s, suf) ==
    Len(s) >= Len(suf) /\ \A i \in 1..Len(suf) : s[Len(s) - Len(suf) + i] = suf[i]

BeginsWith(s, pre) == Len(s) >= Len(pre) /\ \A i \in 1..Len(pre) : s[i] = pre[i]

\* the script up to its first key among stops, that key included; the whole
\* script when it has none
UpToFirst(data, stops) ==
    LET at == {i \in DOMAIN data : data[i] \in stops}
    IN  IF at = {} THEN data
        ELSE SubSeq(data, 1, CHOOSE i \in at : \A j \in at : i <= j)

\* has_local_support, called on its own, has matched the reply
LocalSupportClassified ==
    /\ tty.fn = "has_local_support"
    /\ tty.pc = "done"
    /\ tty.result.kind # "IO"

\* C15 as stated: has_local_support classifies a scripted reply as supported
\* when it terminates in O, K, ST and as unsupported for any other
\* terminator, and then the KittyResponse error carries the full scripted
\* key sequence.
C15_LocalSupportByTerminator ==
    LocalSupportClassified =>
        IF EndsWith(tty.data, <<"O", "K", "ESC\\">>) THEN tty.result.kind = "Ok"
        ELSE /\ tty.result.kind = "KittyResponse"
             /\ tty.calls[1].response = tty.data

\* C15, amended: has_local_support classifies the reply as supported exactly
\* when the keys up to the first ST or Unknown key are the ten keys
\* ESC_ G i = 3 1 ; O K ST; otherwise it returns a KittyResponse error that
\* carries the keys it has read, the script up to and including that first
\* ST or Unknown key.
C15_LocalSupportByReply ==
    LocalSupportClassified =>
        LET read == UpToFirst(tty.data, {"ESC\\", "Unknown"})
        IN  /\ tty.calls[1].response = read
            /\ tty.result.kind = (IF read = <<"ESC_", "G", "i", "=", "3", "1", ";",
                                              "O", "K", "ESC\\">>
                                  THEN "Ok" ELSE "KittyResponse")

\* C15 witness: a reply that ends in O, K, ST after a key that is not part
\* of the expected reply has been classified as unsupported
C15_Witness ==
    /\ LocalSupportClassified
    /\ EndsWith(tty.data, <<"O", "K", "ESC\\">>)
    /\ tty.calls[1].response = tty.data
    /\ tty.result.kind = "KittyResponse"

\* C16: has_remote_support writes exactly the Kitty query followed by the
\* device-attributes query before it reads a key, and returns Ok if and only
\* if the reply it has collected begins with the ten keys
\* ESC_ G i = 3 1 ; O K ST; a reply that holds only the device-attributes
\* answer gives a KittyResponse error.  (An Io error is returned only when
\* the queries could not be written, and then no key is read.)
C16_RemoteSupportByPrefix ==
    tty.fn = "check_kitty_support" =>
        /\ (tty.probe = "has_remote_support" /\ tty.pc = "query") =>
               stdout = <<>> /\ tty.reads = 0
        /\ (tty.probe = "has_remote_support" /\ tty.pc \in {"read", "classify"}) =>
               stdout = <<Item("ESC_Gi=31,s=1,v=1,a=q,t=d,f=24;AAAA ESC\\", 0),
                          Item("ESC[c", 0)>>
        /\ tty.calls # <<>> =>
               LET c == tty.calls[1]
                   ten == <<"ESC_", "G", "i", "=", "3", "1", ";", "O", "K", "ESC\\">>
               IN  /\ c.probe = "has_remote_support"
                   /\ c.res = "Ok" <=> BeginsWith(c.response, ten)
                   /\ c.res \in {"Ok", "KittyResponse", "IO"}
                   /\ c.res = "IO" => c.response = <<>> /\ stdout = <<>>
                   /\ (c.response # <<>> /\ c.response[1] \in {"ESC[?6", "ESC[?1"}) =>
                          c.res = "KittyResponse"

\* C16 witness: has_remote_support has returned Ok for a reply that begins
\* with the ten keys and goes on with the device attributes
C16_Witness ==
    /\ tty.fn = "check_kitty_support"
    /\ tty.calls # <<>>
    /\ tty.calls[1].res = "Ok"
    /\ Len(tty.calls[1].response) > 10
    /\ tty.calls[1].response[Len(tty.calls[1].response)] = "c"

\* where in the script the loop at work began to read: has_local_support
\* after has_remote_support begins where that one stopped
LoopStart ==
    IF \/ tty.fn = "check_kitty_support" /\ tty.probe = "has_local_support"
       \/ tty.fn = "check_iterm_support" /\ tty.probe = "has_iterm_support_reportcellsize"
    THEN Len(tty.calls[1].response) ELSE 0

\* the positions of the script at which the loop at work has to stop: an
\* Unknown key or its terminator (in has_remote_support a c, once a key
\* that is an escape sequence starting with [? has been read)
StopsOfLoop ==
    {i \in (LoopStart + 1)..Len(tty.data) :
        \/ tty.data[i] = "Unknown"
        \/ /\ tty.probe = "has_remote_support"
           /\ tty.data[i] = "c"
           /\ \E j \in (LoopStart + 1)..i : tty.data[j] \in {"ESC[?6", "ESC[?1"}
        \/ tty.probe = "has_local_support" /\ tty.data[i] = "ESC\\"
        \/ /\ tty.probe \in {"wait_for_dsr", "has_iterm_support_capabilities",
                             "has_iterm_support_reportcellsize"}
           /\ tty.data[i] = "ESC[0n"
        \/ tty.probe = "check_device_attrs" /\ tty.data[i] = "c"}

\* the key at which the loop ends: the first of these, or the end of the
\* script, where read_key fails
EndOfLoop ==
    IF StopsOfLoop = {} THEN Len(tty.data)
    ELSE CHOOSE i \in StopsOfLoop : \A j \in StopsOfLoop : i <= j

LoopStopsAtFirst ==
    tty.probe \notin {"none", "xterm_check_sixel_support"} =>
        /\ tty.next_idx <= EndOfLoop
        /\ tty.pc = "read" =>
               tty.next_idx < EndOfLoop \/ (StopsOfLoop = {} /\ tty.next_idx = EndOfLoop)
        /\ tty.pc = "classify" =>
               /\ tty.next_idx = EndOfLoop
               /\ tty.reads = (EndOfLoop - LoopStart) + (IF StopsOfLoop = {} THEN 1 ELSE 0)

\* C17: every probe read loop (has_remote_support, has_local_support,
\* wait_for_dsr, has_iterm_support_capabilities,
\* has_iterm_support_reportcellsize, check_device_attrs) terminates on every
\* script, which holds its terminator, an Unknown key or ends in a read
\* error: it stops at the first of these and reads no key after it; in
\* has_remote_support a c is the terminator only after an escape sequence
\* starting with [? has been read.
C17_ReadLoopsTerminate ==
    /\ []LoopStopsAtFirst
    /\ (tty.pc = "read") ~> (tty.pc = "classify")

\* C17 witness: a loop has ended at its terminator with keys of the script
\* left unread
C17_Witness ==
    /\ tty.pc = "classify"
    /\ StopsOfLoop # {}
    /\ tty.data[tty.next_idx] # "Unknown"
    /\ tty.next_idx < Len(tty.data)

\* the query of has_local_support has been written
LocalQuerySent ==
    \E i \in DOMAIN stdout : stdout[i].t = "ESC_Gi=31,s=1,v=1,a=q,t=t;path ESC\\"

\* C18: check_kitty_support decides in order: if the remote probe fails the
\* result is None and the local-file probe is never sent; if the remote
\* probe succeeds the local-file probe is sent next, and the result is Local
\* when it succeeds and Remote when it fails.
C18_KittySupportInOrder ==
    tty.fn = "check_kitty_support" =>
        /\ (LocalQuerySent \/ tty.probe = "has_local_support") =>
               tty.calls # <<>> /\ tty.calls[1].probe = "has_remote_support"
                                /\ tty.calls[1].res = "Ok"
        /\ (tty.calls # <<>> /\ tty.calls[1].res # "Ok") =>
               /\ tty.pc = "done"
               /\ tty.result.kind = "None"
               /\ Len(tty.calls) = 1
               /\ ~LocalQuerySent
               /\ tty.temp_file = "none"
        /\ (tty.calls # <<>> /\ tty.calls[1].res = "Ok") =>
               /\ tty.probe = "has_local_support"
               /\ tty.pc = "done" =>
                      /\ Len(tty.calls) = 2
                      /\ tty.calls[2].probe = "has_local_support"
                      /\ tty.calls[2].res = "Ok" => LocalQuerySent
                      /\ tty.result.kind = (IF tty.calls[2].res = "Ok" THEN "Local"
                                            ELSE "Remote")
        /\ tty.pc = "done" => tty.calls # <<>>

\* C18 witness: both probes have succeeded and the result is Local
C18_Witness ==
    /\ tty.fn = "check_kitty_support"
    /\ tty.pc = "done"
    /\ tty.result.kind = "Local"
    /\ LocalQuerySent

\* wait_for_dsr of print_local has read the reply ESC [ 0 n
DsrReplyRead ==
    /\ tty.probe = "wait_for_dsr"
    /\ \E i \in DOMAIN tty.response : tty.response[i] = "ESC[0n"

\* C19: in print_local the temp file is never deleted before the DSR reply
\* has been read: whenever the file has been removed, by close_tmp_file or
\* by going out of scope, the reply had been received.
C19_TempFileOutlivesDsr ==
    (tty.fn = "print_local" /\ tty.temp_file \in {"closed", "not_found", "dropped"})
        => DsrReplyRead

\* close_tmp_file of print_local is reached only with the reply read
C19_CloseAfterDsr ==
    (tty.fn = "print_local" /\ (tty.pc = "close"
                                 \/ tty.temp_file \in {"closed", "not_found", "close_failed"}))
        => /\ DsrReplyRead
           /\ tty.response = <<"ESC[0n">>

\* the command that names the file and the DSR query have been written, no
\* reply has been read, and the file has gone out of scope
C19_DroppedAfterCommand ==
    /\ tty.fn = "print_local"
    /\ tty.temp_file = "dropped"
    /\ \E i \in DOMAIN stdout : stdout[i].t = "ESC[5n"
    /\ ~DsrReplyRead
    /\ tty.result.kind = "KittyResponse"

\* the escape sequences of print_remote in stdout, and the m key of one
IsRemoteSequence(item) == item.t \in {"ESC_Gf=32,a=T,t=d,m=1", "ESC_Gm="}
RemoteSequences == SelectSeq(stdout, IsRemoteSequence)
MoreFlag(item) == IF item.t = "ESC_Gm=" THEN item.n ELSE 1
PrintRemoteReturnedOk ==
    tty.fn = "print_remote" /\ tty.pc = "done" /\ tty.result.kind = "Ok"

\* C20: in the Kitty remote transmission every escape sequence except the
\* last carries m=1 and the last carries m=0, for every payload size,
\* payloads that fit in a single chunk included.
C20_LastSequenceEndsTransfer ==
    PrintRemoteReturnedOk =>
        /\ RemoteSequences # <<>>
        /\ \A i \in 1..(Len(RemoteSequences) - 1) : MoreFlag(RemoteSequences[i]) = 1
        /\ MoreFlag(RemoteSequences[Len(RemoteSequences)]) = 0

\* the same for payloads of more than one chunk only; a payload of one chunk
\* is sent as one sequence with m=1
C20_ExceptSingleChunk ==
    PrintRemoteReturnedOk =>
        /\ Len(RemoteSequences) = (EncodedLen(image) + ChunkSize - 1) \div ChunkSize
        /\ \A i \in 1..(Len(RemoteSequences) - 1) : MoreFlag(RemoteSequences[i]) = 1
        /\ MoreFlag(RemoteSequences[Len(RemoteSequences)]) =
               (IF EncodedLen(image) <= ChunkSize THEN 1 ELSE 0)

\* a payload of three chunks has been sent
C20_ThreeChunks ==
    PrintRemoteReturnedOk /\ Len(RemoteSequences) = 3

\* C21: the encoding is split into consecutive chunks of at most 4096
\* characters, one escape sequence per chunk; the chunks in emission order
\* follow one another from the first character of the encoding to, once
\* print_remote has returned Ok, its last, and no continuation chunk is
\* empty.
C21_ChunksReproduceEncoding ==
    tty.fn = "print_remote" =>
        /\ Len(tty.chunks) = Len(RemoteSequences)
        /\ \A i \in DOMAIN tty.chunks :
             /\ tty.chunks[i].len <= ChunkSize
             /\ tty.chunks[i].from = (IF i = 1 THEN 1
                                      ELSE tty.chunks[i - 1].from + tty.chunks[i - 1].len)
             /\ tty.chunks[i].from + tty.chunks[i].len - 1 <= EncodedLen(image)
             /\ i > 1 => tty.chunks[i].len > 0
        /\ PrintRemoteReturnedOk =>
             /\ tty.chunks # <<>>
             /\ LET last == tty.chunks[Len(tty.chunks)]
                IN  last.from + last.len - 1 = EncodedLen(image)

\* C21 witness: an encoding of more than one chunk, with a shorter last
\* chunk, has been sent
C21_Witness ==
    /\ PrintRemoteReturnedOk
    /\ Len(tty.chunks) >= 2
    /\ tty.chunks[Len(tty.chunks)].len < ChunkSize

(***************************************************************************)
(* Claims about the block printer's writes, checked under Spec.            *)
(***************************************************************************)
\* C22: a write of print_buffer that fails with a broken pipe counts as a
\* success, and printing goes on: the call does not end with an error on it
\* and every row of cells still gets its write; a write that fails in any
\* other way ends the call at once with ViuError::IO, and nothing else does.
C22_BrokenPipeIsSuccess ==
    printer = "BlockPrinter" =>
        /\ \A i \in DOMAIN blk.writes :
             /\ blk.writes[i] = "Other" =>
                    i = Len(blk.writes) /\ blk.pc = "done" /\ blk.result.kind = "IO"
             /\ (blk.writes[i] = "BrokenPipe" /\ i = Len(blk.writes)) =>
                    \/ blk.pc = "rows" /\ blk.result = NoResult
                    \/ blk.pc = "done" /\ blk.result.kind = "Ok"
        /\ blk.result.kind = "IO" =>
               blk.writes # <<>> /\ blk.writes[Len(blk.writes)] = "Other"
        /\ (blk.pc = "done" /\ blk.result.kind = "Ok" /\ blk.img.w > 0) =>
               Len(blk.writes) = (blk.img.h \div 2) + 1

\* C22 witness: a write has failed with a broken pipe, the rows after it
\* have been printed, and the call has returned Ok
C22_Witness ==
    /\ printer = "BlockPrinter"
    /\ blk.pc = "done"
    /\ blk.result.kind = "Ok"
    /\ Len(blk.writes) >= 3
    /\ blk.writes[1] = "BrokenPipe"
    /\ blk.writes[2] = "Ok"

(***************************************************************************)
(* Claims about KittyPrinter::print, checked under SpecTerm.               *)
(***************************************************************************)
\* the newlines at the end of stdout
RECURSIVE TrailingNewlines(_)
TrailingNewlines(out) ==
    IF out = <<>> \/ out[Len(out)] # Newline THEN 0
    ELSE 1 + TrailingNewlines(SubSeq(out, 1, Len(out) - 1))

KittyPrintReturnedOk ==
    /\ tty.fn \in {"print_local", "print_remote"}
    /\ tty.pc = "printed"
    /\ tty.result.kind = "Ok"

\* C23: after a successful Kitty print exactly one trailing newline is
\* written if config.x + printed width is less than the terminal's column
\* count, and none otherwise, for every u16 offset x and every width.
C23_NewlineIffRoom ==
    KittyPrintReturnedOk =>
        TrailingNewlines(stdout) =
            (IF config.x + tty.result.w < term[1] THEN 1 ELSE 0)

\* the same where config.x + width is at most u16::MAX
C23_ExceptOverflow ==
    (KittyPrintReturnedOk /\ config.x + tty.result.w < TwoTo16) =>
        TrailingNewlines(stdout) =
            (IF config.x + tty.result.w < term[1] THEN 1 ELSE 0)

\* the image ends in the last column and no newline has been written
C23_EdgeReached ==
    /\ KittyPrintReturnedOk
    /\ config.x + tty.result.w = term[1]
    /\ TrailingNewlines(stdout) = 0

(***************************************************************************)
(* Claims about check_iterm_support, checked under SpecTerm.               *)
(***************************************************************************)
CellSizeQuerySent ==
    \E i \in DOMAIN stdout : stdout[i].t = "ESC]1337;ReportCellSize ESC\\"

\* the probe asked for has been called and has returned Ok
ProbeSucceeded(probe) ==
    \E i \in DOMAIN tty.calls : tty.calls[i].probe = probe /\ tty.calls[i].res = "Ok"

ProbeFailed(probe) ==
    \E i \in DOMAIN tty.calls : tty.calls[i].probe = probe /\ tty.calls[i].res # "Ok"

\* one of the environment variables names a terminal known for the protocol
NamesKnownTerminal(env) ==
    LET Has(value, pats) == value # None /\ \E i \in DOMAIN value[1] : value[1][i] \in pats
    IN  \/ Has(env.TERM_PROGRAM, {"iTerm", "WezTerm", "mintty", "rio", "WarpTerminal"})
        \/ Has(env.LC_TERMINAL, {"iTerm", "WezTerm", "mintty", "rio"})
        \/ env.KONSOLE_VERSION \notin {None, Some(<<>>)}

\* C24: check_iterm_support returns true if and only if the Capabilities
\* probe succeeds, or the ReportCellSize probe succeeds, or one of the
\* environment variables matches; the steps are tried in that order, and a
\* later one is executed only when all earlier ones have failed.
C24_ItermSupportInOrder ==
    tty.fn = "check_iterm_support" =>
        /\ tty.pc = "done" =>
               (tty.result.kind = "true" <=>
                    \/ ProbeSucceeded("has_iterm_support_capabilities")
                    \/ ProbeSucceeded("has_iterm_support_reportcellsize")
                    \/ tty.env.read /\ NamesKnownTerminal(tty.env))
        /\ tty.pc = "done" => tty.result.kind \in {"true", "false"}
        /\ (CellSizeQuerySent \/ tty.probe = "has_iterm_support_reportcellsize") =>
               /\ tty.calls # <<>>
               /\ tty.calls[1].probe = "has_iterm_support_capabilities"
               /\ tty.calls[1].res # "Ok"
        /\ (tty.env.read \/ tty.pc = "env") =>
               /\ Len(tty.calls) = 2
               /\ ProbeFailed("has_iterm_support_capabilities")
               /\ ProbeFailed("has_iterm_support_reportcellsize")
        /\ Len(tty.calls) <= 2
        /\ tty.pc = "done" =>
               \/ ProbeSucceeded(tty.calls[Len(tty.calls)].probe)
               \/ tty.env.read

\* C24 witness: both probes have failed, and the environment has named a
\* known terminal
C24_Witness ==
    /\ tty.fn = "check_iterm_support"
    /\ tty.pc = "done"
    /\ tty.result.kind = "true"
    /\ CellSizeQuerySent
    /\ tty.env.read
    /\ ~ProbeSucceeded("has_iterm_support_reportcellsize")

\* the ReportCellSize probe has succeeded after the Capabilities probe failed
C24_SecondProbeSucceeded ==
    /\ tty.fn = "check_iterm_support"
    /\ tty.pc = "done"
    /\ ProbeSucceeded("has_iterm_support_reportcellsize")

(***************************************************************************)
(* Claims about the Sixel probes, checked under SpecTerm.                  *)
(***************************************************************************)
\* a Sixel probe has sent its query and has returned what it found
SixelProbeReturned(fns) ==
    /\ tty.fn \in fns
    /\ tty.pc = "done"
    /\ tty.result.kind # "IO"
    /\ \E i \in DOMAIN stdout : stdout[i].t \in {"ESC[c", "ESC[0c"}

SixelReported == tty.result.kind \in {"true", "Local"}

\* the bytes of the reply the probe has read
SixelReplyRead == ReplyBytes(SubSeq(tty.data, 1, tty.next_idx))

\* the attributes of the reply, the parameters after the device class,
\* have the parameter 4: a 4 after a ; and before a ; or the final c
HasSixelAttribute(bytes) ==
    \E i \in 2..(Len(bytes) - 1) :
        bytes[i] = "4" /\ bytes[i - 1] = ";" /\ bytes[i + 1] \in {";", "c"}

SixelIffAttribute(fns) ==
    SixelProbeReturned(fns) => (SixelReported <=> HasSixelAttribute(SixelReplyRead))

\* C25: the Sixel probe reports support if and only if the parameter list of
\* the reply has the sixel capability code 4 as a whole parameter, not the
\* digit 4 inside another number; a reply without it, or no reply, yields
\* unsupported.
C25_SixelIffWholeParameter ==
    SixelIffAttribute({"check_device_attrs", "xterm_check_sixel_support"})

\* the same for check_device_attrs of sixel_util.rs alone, for a reply that
\* is one device attributes report, cut short or not: the introducer, then
\* characters only
C25_DeviceAttrsOnly ==
    LET keys == SubSeq(tty.data, 1, tty.next_idx)
    IN  (/\ keys # <<>>
         /\ keys[1] \in {"ESC[?6", "ESC[?1"}
         /\ \A i \in 2..Len(keys) : keys[i] \in Chars)
            => SixelIffAttribute({"check_device_attrs"})

\* check_device_attrs has found the attribute 4
C25_AttributeFound ==
    SixelProbeReturned({"check_device_attrs"}) /\ SixelReported

\* xterm_check_sixel_support has reported Sixel for a reply without the
\* attribute 4
C25_DigitInsideNumber ==
    /\ SixelProbeReturned({"xterm_check_sixel_support"})
    /\ SixelReported
    /\ ~HasSixelAttribute(SixelReplyRead)

(***************************************************************************)
(* More claims about the geometry functions, checked under SpecGeom.       *)
(***************************************************************************)
\* fit_dimensions has returned for an image that fits the bound already
FitOfSmallImage ==
    /\ geo.op = "fit_dimensions"
    /\ geo.args[1] >= 1 /\ geo.args[2] >= 1
    /\ geo.args[1] <= geo.args[3]
    /\ geo.args[2] <= geo.args[4]
    /\ ~geo.res.panic

\* C26: for every image that fits the bound already (w <= bound_w and
\* h <= bound_h) fit_dimensions returns the image's own dimensions (w, h)
\* and does not enlarge them.
C26_SmallImageUnchanged ==
    FitOfSmallImage => (geo.res.w = geo.args[1] /\ geo.res.h = geo.args[2])

\* what fit_dimensions does with such an image: it fills the bound on one
\* axis, so the result is never smaller than the image
C26_SmallImageFillsBound ==
    FitOfSmallImage =>
        /\ geo.res.w = geo.args[3] \/ geo.res.h = geo.args[4]
        /\ geo.res.w >= geo.args[1] \/ geo.res.h >= geo.args[2]

\* a 1 x 1 image in the bound 2 x 3 has come back as 2 x 2
C26_Enlarged ==
    /\ geo.op = "fit_dimensions"
    /\ geo.args = <<1, 1, 2, 3>>
    /\ geo.res.w = 2 /\ geo.res.h = 2

(***************************************************************************)
(* More claims about the block printer, checked under Spec.                *)
(***************************************************************************)
\* BlockPrinter::print is past its "adjust y offset" step in relative mode
RelativeOffsetApplied ==
    /\ printer = "BlockPrinter"
    /\ ~config.absolute_offset
    /\ blk.pc \in {"rows", "done"}

\* the items that move the cursor to another line or that print a cell
IsVerticalMove(item) == item.t \in {"MoveToPreviousLine", "MoveTo", "\n"}

\* C27: in relative-offset mode the vertical offset comes before any pixel
\* output: for every negative y, i16::MIN included, the output starts with
\* one move up by |y| lines, and for every other y it starts with exactly y
\* newlines; the cursor is never moved up otherwise.
C27_RelativeYOffsetFirst ==
    RelativeOffsetApplied =>
        IF config.y < 0
        THEN /\ Emitted # <<>>
             /\ Emitted[1] = MoveToPreviousLine(-config.y)
             /\ \A i \in 2..Len(Emitted) : Emitted[i].t # "MoveToPreviousLine"
        ELSE /\ Len(Emitted) >= config.y
             /\ \A i \in 1..config.y : Emitted[i] = Newline
             /\ \A i \in DOMAIN Emitted : Emitted[i].t \notin {"MoveToPreviousLine", "MoveTo"}
             /\ Len(Emitted) > config.y => Emitted[config.y + 1] # Newline

\* the same for every y but i16::MIN
C27_ExceptMinY == config.y # I16Min => C27_RelativeYOffsetFirst

\* the call has panicked on y = i16::MIN and has moved nothing
C27_MinYPanics ==
    /\ RelativeOffsetApplied
    /\ config.y = I16Min
    /\ blk.result.kind = "panic"
    /\ Emitted = <<>>

\* without overflow checks y = i16::MIN moves up 32768 lines
C27_MinYMoves ==
    /\ RelativeOffsetApplied
    /\ config.y = I16Min
    /\ ~overflow_checks
    /\ Emitted # <<>>
    /\ Emitted[1] = MoveToPreviousLine(32768)

\* how many items the vertical offset takes
OffsetLen == IF config.absolute_offset \/ config.y < 0 THEN 1 ELSE config.y

\* the item at position i is the first of a row of cells: the first after
\* the offset, or the first after the reset and newline that end a row
RowStart(i) ==
    \/ i = OffsetLen + 1
    \/ i > 2 /\ Emitted[i - 1].t \in {"\n", "\r\n"} /\ Emitted[i - 2] = Reset

\* a block printer has printed an image that has pixels
BlockPrinted ==
    /\ printer \in {"BlockPrinter", "print_to_writecolor"}
    /\ blk.pc = "done"
    /\ blk.result.kind = "Ok"
    /\ blk.img.w >= 1 /\ blk.img.h >= 1

\* C28: with a horizontal offset x > 0 every row of cells, the final half row
\* of an image of odd height included, starts with a move right by x
\* columns, and with x = 0 no row has such a move.
C28_EveryRowMovedRight ==
    BlockPrinted =>
        \A i \in DOMAIN Emitted :
            IF config.x > 0
            THEN RowStart(i) <=> Emitted[i] = MoveRight(config.x)
            ELSE Emitted[i] # MoveRight(0)

\* the same for print_to_writecolor, and for BlockPrinter on even heights
C28_ExceptOddHeightInBlockPrinter ==
    (printer = "print_to_writecolor" \/ blk.img.h % 2 = 0) => C28_EveryRowMovedRight

\* BlockPrinter has printed the half row of an image of odd height with
\* x > 0, and the row starts with a cell
C28_HalfRowNotMoved ==
    /\ BlockPrinted
    /\ printer = "BlockPrinter"
    /\ config.x > 0
    /\ blk.img.h = 3
    /\ \E i \in DOMAIN Emitted :
         RowStart(i) /\ Emitted[i].t \in {"set_color", "MoveRight"}
                     /\ Emitted[i] # MoveRight(config.x)

\* print_to_writecolor has printed the half row of an image of odd height
\* with the move in front
C28_WriteColorHalfRowMoved ==
    /\ BlockPrinted
    /\ printer = "print_to_writecolor"
    /\ config.x > 0
    /\ blk.img.h = 3
    /\ Len(SelectSeq(Emitted, LAMBDA item : item = MoveRight(config.x))) = 2

\* BlockPrinter has printed an image of even height with x > 0
C28_EvenHeightMoved ==
    /\ BlockPrinted
    /\ printer = "BlockPrinter"
    /\ config.x > 0
    /\ blk.img.h = 2
    /\ Emitted[OffsetLen + 1] = MoveRight(config.x)

\* the items of the cells: colours, glyphs and one-column advances
IsCellItem(item) ==
    \/ item.t \in {"set_color", "UPPER_HALF_BLOCK", "LOWER_HALF_BLOCK"}
    \/ item = MoveRight(1)

\* the output of a cell by its top and bottom colours and the last-row flag
CellByColours(top, bottom, last) ==
    IF last THEN
        IF top # NoColor
        THEN <<[t |-> "set_color", n |-> 0, col |-> 0, fg |-> top, bg |-> NoColor],
               UPPER_HALF_BLOCK>>
        ELSE <<MoveRight(1)>>
    ELSE IF top = NoColor /\ bottom = NoColor THEN <<MoveRight(1)>>
    ELSE IF top = NoColor
    THEN <<[t |-> "set_color", n |-> 0, col |-> 0, fg |-> bottom, bg |-> NoColor],
           LOWER_HALF_BLOCK>>
    ELSE IF bottom = NoColor
    THEN <<[t |-> "set_color", n |-> 0, col |-> 0, fg |-> top, bg |-> NoColor],
           UPPER_HALF_BLOCK>>
    ELSE <<[t |-> "set_color", n |-> 0, col |-> 0, fg |-> bottom, bg |-> top],
           LOWER_HALF_BLOCK>>

\* the cells of the image from pixel row r (from 0) and column c (from 0) on
RECURSIVE CellsFrom(_, _)
CellsFrom(r, c) ==
    IF r >= blk.img.h THEN <<>>
    ELSE IF c >= blk.img.w THEN CellsFrom(r + 2, 0)
    ELSE LET last == r + 1 = blk.img.h
             top == PixelColor(config, blk.img, r, c)
             bottom == IF last THEN NoColor ELSE PixelColor(config, blk.img, r + 1, c)
         IN  CellByColours(top, bottom, last) \o CellsFrom(r, c + 1)

\* C29: the block renderer picks each cell's output from its top and bottom
\* colours and the last-row flag only: no colours, a one-column advance;
\* only bottom, the lower half glyph with foreground only; only top, the
\* upper half glyph with the top colour as foreground; both, the lower half
\* glyph with background top and foreground bottom; on the final row of an
\* odd height the upper half glyph with foreground only if there is a top
\* colour, else an advance, never a lower half glyph or a background.
C29_CellsByColours ==
    BlockPrinted => SelectSeq(Emitted, IsCellItem) = CellsFrom(0, 0)

\* C29 witness: an image of odd height has been printed with a lower half
\* glyph, an advance, and an upper half glyph in its final row
C29_Witness ==
    /\ BlockPrinted
    /\ blk.img.h = 3
    /\ config.x # 1
    /\ \E i, j, k \in DOMAIN Emitted :
         /\ i < k /\ j < k
         /\ Emitted[i] = LOWER_HALF_BLOCK
         /\ Emitted[j] = MoveRight(1)
         /\ Emitted[k] = UPPER_HALF_BLOCK

(***************************************************************************)
(* Claims about find_best_fit without a requested size, checked under      *)
(* SpecGeom.                                                               *)
(***************************************************************************)
\* the height of the aspect-preserving fit of w x h into bound_w x bound_h,
\* over the integers
FittedHeight(w, h, bound_w, bound_h) ==
    IF bound_w * h <= w * bound_h THEN (h * bound_w) \div w ELSE bound_h

\* find_best_fit(img, None, None) has been called for an image with pixels
BestFitOfTerminal ==
    /\ BestFitCall
    /\ ~IsSome(geo.args[2]) /\ ~IsSome(geo.args[3])
    /\ geo.args[1].w >= 1 /\ geo.args[1].h >= 1

\* C30: with neither width nor height given, the height find_best_fit
\* returns is always exactly one less than the cell height of the
\* aspect-preserving fit into the terminal, fitted_height / 2 - 1, whether
\* the fit reaches the full terminal height or not.
C30_HeightOneLessThanFit ==
    BestFitOfTerminal =>
        /\ ~geo.res.panic
        /\ geo.res.h = FittedHeight(geo.args[1].w, geo.args[1].h,
                                    term[1], 2 * term[2]) \div 2 - 1

\* the same where the fitted height is two pixel rows or more
C30_ExceptFlatFit ==
    (BestFitOfTerminal /\ FittedHeight(geo.args[1].w, geo.args[1].h,
                                       term[1], 2 * term[2]) >= 2)
        => C30_HeightOneLessThanFit

\* the row is taken off a fit that does not reach the terminal's height
C30_ShortFitLosesRow ==
    /\ BestFitOfTerminal
    /\ ~geo.res.panic
    /\ FittedHeight(geo.args[1].w, geo.args[1].h, term[1], 2 * term[2]) < 2 * term[2]
    /\ geo.res.h = FittedHeight(geo.args[1].w, geo.args[1].h,
                                term[1], 2 * term[2]) \div 2 - 1
    /\ geo.res.h >= 1

\* a 160 x 80 image on the 80 x 24 terminal gives 80 x 19
C30_Example ==
    term = DEFAULT_TERM_SIZE =>
        LET fit == find_best_fit([w |-> 160, h |-> 80], None, None)
        IN  ~fit.panic /\ fit.w = 80 /\ fit.h = 19


(***************************************************************************)
(* Claims about the two iTerm probes, checked under SpecTerm.              *)
(***************************************************************************)
\* the first call recorded is the one of the probe, and its queries went out
ProbeCalledFirst(probe) ==
    /\ tty.calls # <<>>
    /\ tty.calls[1].probe = probe
    /\ tty.calls[1].res # "IO"

EndsWithDsr(response) == response # <<>> /\ response[Len(response)] = "ESC[0n"

\* the keys read before the last one
Front(response) == SubSeq(response, 1, Len(response) - 1)

CapabilitiesIntro ==
    <<"ESC]", "1", "3", "3", "7", ";", "C", "a", "p", "a", "b", "i", "l", "i", "t", "i",
      "e", "s", "=">>

\* the reply to the Capabilities query: the introducer, the features, and
\* the string terminator
IsCapabilitiesReply(reply) ==
    /\ Len(reply) > Len(CapabilitiesIntro)
    /\ SubSeq(reply, 1, Len(CapabilitiesIntro)) = CapabilitiesIntro
    /\ reply[Len(reply)] = "ESC\\"

FeaturesOf(reply) == SubSeq(reply, Len(CapabilitiesIntro) + 1, Len(reply) - 1)

Lists(keys, key) == \E i \in DOMAIN keys : keys[i] = key

\* C31: has_iterm_support_capabilities writes the Capabilities query and
\* then the DSR query; it returns Ok exactly when the reply to the
\* Capabilities query, read before the DSR reply, lists the feature F; a
\* reply that is only the DSR reply, or that ends without it, is an
\* ItermResponse error that carries the keys read.
C31_CapabilitiesListFile ==
    ProbeCalledFirst("has_iterm_support_capabilities") =>
        LET call == tty.calls[1]
            response == call.response
        IN  /\ Len(stdout) >= 2
            /\ stdout[1].t = "ESC]1337;Capabilities ESC\\"
            /\ stdout[2].t = "ESC[5n"
            /\ call.res \in {"Ok", "ItermResponse"}
            /\ response = SubSeq(tty.data, 1, Len(response))
            /\ (EndsWithDsr(response) /\ IsCapabilitiesReply(Front(response))) =>
                   (call.res = "Ok" <=> Lists(FeaturesOf(Front(response)), "F"))
            /\ call.res = "Ok" =>
                   EndsWithDsr(response) /\ Lists(Front(response), "F")
            /\ (response = <<"ESC[0n">> \/ ~EndsWithDsr(response)) =>
                   call.res = "ItermResponse"

\* C31 witness: a Capabilities reply without the feature F has been refused
C31_Witness ==
    /\ ProbeCalledFirst("has_iterm_support_capabilities")
    /\ EndsWithDsr(tty.calls[1].response)
    /\ IsCapabilitiesReply(Front(tty.calls[1].response))
    /\ tty.calls[1].res = "ItermResponse"

\* a Capabilities reply with the feature F has been accepted
C31_FileListed ==
    /\ ProbeCalledFirst("has_iterm_support_capabilities")
    /\ IsCapabilitiesReply(Front(tty.calls[1].response))
    /\ tty.calls[1].res = "Ok"

\* the reply ended before the DSR reply, after keys had been read
C31_NoDsrReply ==
    /\ ProbeCalledFirst("has_iterm_support_capabilities")
    /\ Len(tty.calls[1].response) > 1
    /\ ~EndsWithDsr(tty.calls[1].response)


\* a returned call of has_iterm_support_reportcellsize whose queries went out
CellSizeCalls ==
    {i \in DOMAIN tty.calls : /\ tty.calls[i].probe = "has_iterm_support_reportcellsize"
                              /\ tty.calls[i].res # "IO"}

\* the keys hold the run as a contiguous run
HasRun(keys, run) ==
    \E i \in 1..(Len(keys) - Len(run) + 1) : SubSeq(keys, i, i + Len(run) - 1) = run

ReportCellSize ==
    <<"R", "e", "p", "o", "r", "t", "C", "e", "l", "l", "S", "i", "z", "e">>

\* C32: has_iterm_support_reportcellsize returns Ok if and only if the reply
\* ends with the DSR reply and holds the identifier ReportCellSize as a
\* contiguous run of keys; a reply that echoes another identifier with the
\* same prefix, or that is only the DSR reply, is an ItermResponse error.
C32_CellSizeIffEchoed ==
    \A i \in CellSizeCalls :
        LET call == tty.calls[i]
        IN  /\ call.res \in {"Ok", "ItermResponse"}
            /\ call.res = "Ok" <=>
                   EndsWithDsr(call.response) /\ HasRun(call.response, ReportCellSize)

\* what does hold: Ok only with the DSR reply at the end and the identifier
\* as a contiguous run, and Ok for every reply of at least 22 keys that ends
\* with the DSR reply and has the identifier from its first R on
C32_EchoFromFirstR ==
    \A i \in CellSizeCalls :
        LET call == tty.calls[i]
            response == call.response
            FromFirstR ==
                \E j \in DOMAIN response :
                    /\ \A k \in 1..(j - 1) : response[k] # "R"
                    /\ j + Len(ReportCellSize) - 1 <= Len(response)
                    /\ SubSeq(response, j, j + Len(ReportCellSize) - 1) = ReportCellSize
        IN  call.res = "Ok" <=>
                /\ EndsWithDsr(response)
                /\ Len(response) >= 22
                /\ FromFirstR

\* the identifier is echoed after a key R, and the probe has failed
C32_FalseStart ==
    \E i \in CellSizeCalls :
        /\ tty.calls[i].res = "ItermResponse"
        /\ EndsWithDsr(tty.calls[i].response)
        /\ Len(tty.calls[i].response) >= 22
        /\ HasRun(tty.calls[i].response, ReportCellSize)

\* a well-formed reply has been accepted, and ReportVariable has been refused
C32_Accepted ==
    \E i \in CellSizeCalls : tty.calls[i].res = "Ok"

C32_OtherIdentifierRefused ==
    \E i \in CellSizeCalls :
        /\ tty.calls[i].res = "ItermResponse"
        /\ HasRun(tty.calls[i].response, <<"R", "e", "p", "o", "r", "t", "V">>)


(***************************************************************************)
(* Claims about wait_for_dsr, checked under SpecTerm.                      *)
(***************************************************************************)
\* the returned calls of wait_for_dsr whose query went out
DsrCalls ==
    {i \in DOMAIN tty.calls : /\ tty.calls[i].probe = "wait_for_dsr"
                              /\ tty.calls[i].res # "IO"}

\* C33: wait_for_dsr writes the DSR query before it reads a key, and returns
\* Ok if and only if the first key it reads is the DSR reply ESC[0n; when
\* another key comes first, the key Unknown is read or the input ends, it
\* returns a KittyResponse error that carries exactly the keys it has read.
C33_DsrReplyFirst ==
    tty.fn = "print_local" =>
        /\ tty.next_idx > 0 => \E i \in DOMAIN stdout : stdout[i].t = "ESC[5n"
        /\ (tty.probe = "wait_for_dsr" /\ tty.pc = "read") =>
               stdout # <<>> /\ stdout[Len(stdout)].t = "ESC[5n"
        /\ \A i \in DsrCalls :
               LET call == tty.calls[i]
               IN  /\ call.res \in {"Ok", "KittyResponse"}
                   /\ call.res = "Ok" <=> (tty.data # <<>> /\ tty.data[1] = "ESC[0n")
                   /\ call.response = SubSeq(tty.data, 1, tty.next_idx)
                   /\ call.res = "Ok" => tty.next_idx = 1

\* C33 witness: a key came before the DSR reply, and both are in the error
C33_Witness ==
    /\ tty.fn = "print_local"
    /\ \E i \in DsrCalls :
           /\ tty.calls[i].res = "KittyResponse"
           /\ Len(tty.calls[i].response) = 2
           /\ tty.calls[i].response[2] = "ESC[0n"

\* the DSR reply came first
C33_Accepted ==
    /\ tty.fn = "print_local"
    /\ \E i \in DsrCalls : tty.calls[i].res = "Ok"

\* the key Unknown was read, and the input ended
C33_UnknownRead ==
    /\ tty.fn = "print_local"
    /\ \E i \in DsrCalls : /\ tty.calls[i].response # <<>>
                           /\ tty.calls[i].response[Len(tty.calls[i].response)] = "Unknown"

C33_InputEnded ==
    /\ tty.fn = "print_local"
    /\ \E i \in DsrCalls : /\ Len(tty.calls[i].response) > 1
                           /\ tty.calls[i].response = tty.data
                           /\ tty.data[Len(tty.data)] \notin {"ESC[0n", "Unknown"}


(***************************************************************************)
(* Claims about the temp files of the Kitty printer, checked under         *)
(* SpecTerm.                                                               *)
(***************************************************************************)
\* one of the functions that store a temp file has returned
LocalPathReturned ==
    /\ tty.fn \in {"has_local_support", "check_kitty_support", "print_local"}
    /\ tty.pc = "done"

\* what the function that closed the file has returned
CloseReported ==
    IF tty.fn = "print_local" THEN tty.result.kind
    ELSE tty.calls[Len(tty.calls)].res

\* C34: every temp file created by has_local_support and by print_local is
\* gone when the function returns, on success and on every error path; a
\* file that the terminal had deleted already (NotFound on close) is not
\* reported as an error, and every other error of close is returned.
C34_TempFileGone ==
    LocalPathReturned =>
        /\ tty.temp_file # "open"
        /\ tty.temp_file \in {"none", "unstored", "dropped", "closed", "not_found",
                              "close_failed"}
        /\ tty.temp_file = "close_failed" => CloseReported = "IO"
        /\ tty.temp_file \in {"closed", "not_found"} =>
               /\ CloseReported # "IO"
               /\ tty.fn = "print_local" => tty.result.kind = "Ok"
        /\ tty.temp_file = "unstored" => CloseReported = "IO"
        /\ tty.temp_file = "none" =>
               \/ CloseReported = "IO"
               \/ tty.calls[Len(tty.calls)].probe # "has_local_support"
        /\ (tty.fn = "print_local" /\ tty.result.kind = "Ok") =>
               tty.temp_file \in {"closed", "not_found"}

\* C34 witness: print_local has failed after the file was stored, and the
\* file is gone
C34_Witness ==
    /\ LocalPathReturned
    /\ tty.fn = "print_local"
    /\ tty.temp_file = "dropped"
    /\ tty.result.kind \in {"IO", "KittyResponse"}

\* the terminal had deleted the file, and has_local_support has succeeded
C34_DeletedByTerminal ==
    /\ LocalPathReturned
    /\ tty.fn = "has_local_support"
    /\ tty.temp_file = "not_found"
    /\ tty.result.kind = "Ok"

\* close has failed for another reason, and print_local has returned the error
C34_CloseErrorReturned ==
    /\ LocalPathReturned
    /\ tty.fn = "print_local"
    /\ tty.temp_file = "close_failed"
    /\ tty.result.kind = "IO"


(***************************************************************************)
(* Claims about the arithmetic of find_best_fit and fit_dimensions,        *)
(* checked under SpecGeom.                                                 *)
(***************************************************************************)
\* C35: with neither width nor height given, find_best_fit never underflows:
\* for every image, the flat ones with a fitted pixel height of 0 or 1
\* included, fitted_height / 2 - 1 is not negative, and the height returned
\* is a cell count below the rows of the terminal.
C35_NoUnderflow ==
    BestFitOfTerminal =>
        LET fitted_height == FittedHeight(geo.args[1].w, geo.args[1].h,
                                          term[1], 2 * term[2])
        IN  /\ fitted_height \div 2 - 1 >= 0
            /\ ~geo.res.panic
            /\ geo.res.h < term[2]

\* a flat image: the fitted height is 0 or 1, and the call panics or
\* returns 65535 rows
C35_FlatImage ==
    /\ BestFitOfTerminal
    /\ FittedHeight(geo.args[1].w, geo.args[1].h, term[1], 2 * term[2]) \in {0, 1}
    /\ geo.res.panic \/ geo.res.h = TwoTo16 - 1

\* a flat image never gets through: in a build with overflow checks the
\* call panics, and without them it returns 65535 rows
C35_FlatImageFails ==
    (BestFitOfTerminal
         /\ FittedHeight(geo.args[1].w, geo.args[1].h, term[1], 2 * term[2]) \in {0, 1}
         /\ geo.args[1].w < BigDim /\ geo.args[1].h < BigDim)
        => IF overflow_checks THEN geo.res.panic
           ELSE ~geo.res.panic /\ geo.res.h = TwoTo16 - 1


\* the result of fit_dimensions is the one of the formula over the integers
FitOverIntegers(w, h, bw, bh, res) ==
    IF Le64(Mul64(bw, h), Mul64(w, bh))
    THEN res.w = bw /\ IsFloorOf(res.h, h, bw, w)
    ELSE res.h = bh /\ IsFloorOf(res.w, w, bh, h)

\* C36: fit_dimensions computes what the same formula computes over
\* unbounded integers, for all u32 inputs: the products width*bound_height
\* and bound_width*height never overflow 32 bits (no wrap-around, no
\* overflow panic), and it never divides by zero.
C36_NoOverflowNoZeroDivisor ==
    FitCall =>
        LET w == geo.args[1]
            h == geo.args[2]
            bw == geo.args[3]
            bh == geo.args[4]
        IN  /\ ~Mul32(w, bh).ovf
            /\ ~Mul32(bw, h).ovf
            /\ ~geo.res.panic
            /\ FitOverIntegers(w, h, bw, bh, geo.res)

\* where no product reaches 2^32 and the image has pixels, the result is
\* the one over the integers
C36_ExactWithoutOverflow ==
    FitCall =>
        LET w == geo.args[1]
            h == geo.args[2]
            bw == geo.args[3]
            bh == geo.args[4]
        IN  (~Mul32(w, bh).ovf /\ ~Mul32(bw, h).ovf /\ w >= 1 /\ h >= 1) =>
                /\ ~geo.res.panic
                /\ FitOverIntegers(w, h, bw, bh, geo.res)

\* a product has wrapped around, and the result is not the one over the integers
C36_Wrapped ==
    /\ FitCall
    /\ ~overflow_checks
    /\ Mul32(geo.args[1], geo.args[4]).ovf
    /\ ~geo.res.panic
    /\ ~FitOverIntegers(geo.args[1], geo.args[2], geo.args[3], geo.args[4], geo.res)

\* a product has overflowed in a build with overflow checks
C36_OverflowPanic ==
    /\ FitCall
    /\ overflow_checks
    /\ Mul32(geo.args[1], geo.args[4]).ovf \/ Mul32(geo.args[3], geo.args[2]).ovf
    /\ geo.res.panic

\* no product overflows, and the division is by zero
C36_ZeroDivisor ==
    /\ FitCall
    /\ geo.args[1] = 0
    /\ \A i \in 1..4 : geo.args[i] <= MaxDim
    /\ geo.res.panic


(***************************************************************************)
(* Claims about has_remote_support, checked under SpecTerm.                *)
(***************************************************************************)
\* has_remote_support has written its queries and returned
RemoteSupportReturned ==
    /\ tty.fn = "check_kitty_support"
    /\ ProbeCalledFirst("has_remote_support")

KittyOk == <<"ESC_", "G", "i", "=", "3", "1", ";", "O", "K", "ESC\\">>
PrimaryAttrs == <<"ESC[?6", "2", ";", "4", "c">>

\* the keys not yet read when has_remote_support returned
LeftUnread == SubSeq(tty.data, Len(tty.calls[1].response) + 1, Len(tty.data))

\* C37: when has_remote_support returns it has read the whole reply to both
\* of its queries, in whichever order the terminal answered the Kitty query
\* and the device attributes query: no key of the replies is left on the
\* input, and a terminal that answered the Kitty query with OK is supported
\* in either order.
C37_BothRepliesConsumed ==
    (RemoteSupportReturned /\ tty.data \in {KittyOk \o PrimaryAttrs, PrimaryAttrs \o KittyOk})
        => /\ LeftUnread = <<>>
           /\ tty.calls[1].response = tty.data
           /\ tty.calls[1].res = "Ok"

\* with the Kitty answer first, both replies are read and the terminal is supported
C37_KittyAnswerFirst ==
    (RemoteSupportReturned /\ tty.data = KittyOk \o PrimaryAttrs)
        => /\ LeftUnread = <<>>
           /\ tty.calls[1].res = "Ok"

\* with the device attributes first, the loop stops at their last key: the
\* Kitty answer is left on the input, and the terminal is not supported
C37_AttrsFirst ==
    (RemoteSupportReturned /\ tty.data = PrimaryAttrs \o KittyOk)
        => /\ tty.calls[1].response = PrimaryAttrs
           /\ LeftUnread = KittyOk
           /\ tty.calls[1].res = "KittyResponse"
           /\ tty.pc = "done" => tty.result.kind = "None"

C37_AttrsFirstReturned ==
    /\ RemoteSupportReturned
    /\ tty.data = PrimaryAttrs \o KittyOk
    /\ tty.pc = "done"

C37_KittyAnswerFirstReturned ==
    /\ RemoteSupportReturned
    /\ tty.data = KittyOk \o PrimaryAttrs


(***************************************************************************)
(* Claims about the terminal flags of xterm_check_sixel_support, checked   *)
(* under SpecTerm.                                                         *)
(***************************************************************************)
XtermProbeReturned ==
    /\ tty.fn = "xterm_check_sixel_support"
    /\ tty.pc = "done"

\* the flags before the call: a terminal in canonical mode with echo
FlagsBeforeCall == [c_iflag |-> {"ICRNL", "IXON"}, c_lflag |-> {"ECHO", "ICANON", "ISIG"}]

\* C38: xterm_check_sixel_support leaves c_iflag and c_lflag of the terminal
\* as they were before the call on every return path, also when the write
\* of the query or the read of the reply fails after the flags were changed.
C38_FlagsRestored ==
    XtermProbeReturned => tty.termios = FlagsBeforeCall

\* on the paths that return Ok the flags are as before
C38_RestoredWhenOk ==
    (XtermProbeReturned /\ tty.result.kind \in {"Local", "None"})
        => tty.termios = FlagsBeforeCall

\* the read of the reply has failed, and the terminal is left without echo
\* and out of canonical mode
C38_LeftRaw ==
    /\ XtermProbeReturned
    /\ tty.result.kind = "IO"
    /\ tty.reads = 1
    /\ tty.next_idx = 0
    /\ "ECHO" \notin tty.termios.c_lflag
    /\ "ICANON" \notin tty.termios.c_lflag
    /\ "ICRNL" \notin tty.termios.c_iflag

\* the write of the query has failed after the flags were changed
C38_WriteFailedRaw ==
    /\ XtermProbeReturned
    /\ tty.result.kind = "IO"
    /\ stdout = <<>>
    /\ tty.termios # FlagsBeforeCall


(***************************************************************************)
(* Claims about print_buffer, checked under Spec.                          *)
(***************************************************************************)
\* the outcome of the write of the last print_buffer call
LastWrite == blk.writes[Len(blk.writes)]

\* print_buffer has been called and has returned Ok
PrintBufferReturnedOk ==
    /\ blk.writes # <<>>
    /\ LastWrite \in {"Ok", "BrokenPipe"}
    /\ blk.result.kind \in {"none", "Ok"}

\* C39: whenever print_buffer returns Ok the output buffer is empty, so no
\* byte of a row already printed goes to the sink again with a later
\* print_buffer call, also when the write failed with a broken pipe that
\* was swallowed.
C39_BufferEmptyAfterOk ==
    PrintBufferReturnedOk => blk.out_buffer = <<>>

\* the buffer is empty after every write that succeeded
C39_EmptyAfterWritten ==
    (PrintBufferReturnedOk /\ LastWrite = "Ok") => blk.out_buffer = <<>>

\* after a broken pipe the row is still in the buffer
C39_KeptAfterBrokenPipe ==
    /\ PrintBufferReturnedOk
    /\ LastWrite = "BrokenPipe"
    /\ blk.pc = "rows"
    /\ blk.out_buffer # <<>>

\* the row of a write that failed with a broken pipe has gone out with the
\* write of the next row
C39_RowSentWithNext ==
    /\ Len(blk.writes) = 2
    /\ blk.writes = <<"BrokenPipe", "Ok">>
    /\ blk.img.h = 3
    /\ blk.out_buffer = <<>>
    /\ \E i \in DOMAIN stdout : stdout[i] = Newline /\ i < Len(stdout)

=============================================================================
